---- MODULE Spec2Model ----
(***************************************************************************)
(* Model of the repository layer of timelines-mcp                          *)
(* (src/src/timelines_mcp/domain/repository.py) on top of the storage      *)
(* port as the SQLite adapter implements it                                *)
(* (src/src/timelines_mcp/core/adapters/sqlite.py).                        *)
(*                                                                         *)
(* Storage tables are sequences of rows in insertion order.  Every public  *)
(* repository operation is one action; it records the call in op, the      *)
(* value it returns in result and, for operations that write, the tables   *)
(* as they were before the call in pre.                                    *)
(*                                                                         *)
(* Optional arguments (x: T | None) are sets of at most one element:       *)
(* None is {} and a supplied value v is {v}.  Timestamps are integers,     *)
(* importance scores are tenths (Decimal("0.5") is 5), dicts are functions *)
(* on a finite domain.  An id (uuid4) is the number of the row in its      *)
(* table plus a base that differs per kind of record, so that no two       *)
(* records share an id.                                                    *)
(***************************************************************************)
EXTENDS Integers, Sequences, FiniteSets, TLC

VARIABLES timelines, events, snapshots, entities, links, relationships,
          op, result, pre

storage == <<timelines, events, snapshots, entities, links, relationships>>
vars == <<timelines, events, snapshots, entities, links, relationships,
          op, result, pre>>

----------------------------------------------------------------------------
(* Bounds of the model *)

MaxTime == 2
MaxTimelines == 2
MaxEvents == 2
MaxLimit == 2
MaxSnapshots == 2
MaxChanges == 1
MaxForks == 1
MaxEntities == 2
MaxChainEvents == 3
MaxRelationships == 3
MaxDepth == 2
MaxTreeTimelines == 4
MaxTreeDepth == 2
MaxCycleTimelines == 3
MaxCallers == 2
MaxEdges == 2
MaxEndpoints == 2
MaxNearEvents == 3
MaxGraphEvents == 4
MaxGraphRelationships == 4
MaxGraphDepth == 3

----------------------------------------------------------------------------
(* Values *)

None == {}

Some(v) == {v}

Val(o) == CHOOSE v \in o : TRUE

Optional(S) == {None} \cup {Some(v) : v \in S}

Times == 1..MaxTime

TimelineBase == 100

EventBase == 200

TimelineIds == {TimelineBase + n : n \in 1..MaxTimelines}

ForkIds == {TimelineBase + n : n \in 1..(MaxTimelines + MaxForks)}

EventIds == {EventBase + n : n \in 1..MaxEvents}

CopyIds == {EventBase + n : n \in 1..(2 * MaxEvents)}

Thresholds == {0, 5, 10}

EntityBase == 300

EntityIds == {EntityBase + n : n \in 1..MaxEntities}

Roles == {"actor", "Actor", "location"}

ChainIds == {EventBase + n : n \in 1..MaxChainEvents}

RelationType == {"causal", "temporal"}

EventType == {"observation", "measurement"}

ImportanceScores == {0, 5}

DefaultDetailLevel == 1

DetailLevels == 0..2

EmptyDict == <<>>

NoCall == [name |-> "none"]

NoPre == [timelines |-> <<>>, events |-> <<>>]

StateDelta(global_changes, entity_changes) ==
    [global_changes |-> global_changes, entity_changes |-> entity_changes]

EmptyDelta == StateDelta(EmptyDict, EmptyDict)

Range(s) == {s[i] : i \in 1..Len(s)}

----------------------------------------------------------------------------
(* Python built-ins the repository uses *)

\* sorted(xs, key=lambda e: e.timestamp): stable, ascending.
sorted(xs) ==
    LET n == Len(xs)
        pos(i) == Cardinality({j \in 1..n : xs[j].timestamp < xs[i].timestamp})
                  + Cardinality({j \in 1..i : xs[j].timestamp = xs[i].timestamp})
    IN [p \in 1..n |-> xs[CHOOSE i \in 1..n : pos(i) = p]]

\* xs[:k] for k >= 0
Prefix(xs, k) == SubSeq(xs, 1, IF k < Len(xs) THEN k ELSE Len(xs))

\* d1.update(d2)
update(d1, d2) ==
    [k \in (DOMAIN d1) \cup (DOMAIN d2) |-> IF k \in DOMAIN d2 THEN d2[k] ELSE d1[k]]

----------------------------------------------------------------------------
(* Storage port *)

get_timeline_by_id(timeline_id) ==
    {t \in Range(timelines) : t.id = timeline_id}

get_events_by_timeline(timeline_id) ==
    SelectSeq(events, LAMBDA e : e.timeline_id = timeline_id)

get_event_by_id(event_id) ==
    {e \in Range(events) : e.id = event_id}

Init ==
    /\ timelines = <<>>
    /\ events = <<>>
    /\ snapshots = <<>>
    /\ entities = <<>>
    /\ links = {}
    /\ relationships = <<>>
    /\ op = NoCall
    /\ result = None
    /\ pre = NoPre

----------------------------------------------------------------------------
(* The caller: one call at a time (each public coroutine is awaited to its *)
(* end), then the returned value is consumed.                              *)

Idle == op = NoCall

Return ==
    /\ ~Idle
    /\ op' = NoCall
    /\ result' = None
    /\ pre' = NoPre
    /\ UNCHANGED storage

----------------------------------------------------------------------------
(* Timelines and events *)

Timeline(id, parent_timeline_id) ==
    [id |-> id, parent_timeline_id |-> parent_timeline_id]

Event(id, timeline_id, timestamp, end_timestamp, event_type, description, importance_score, detail_level, state_delta, metadata) ==
    [id |-> id, timeline_id |-> timeline_id, timestamp |-> timestamp,
     end_timestamp |-> end_timestamp, event_type |-> event_type,
     description |-> description, importance_score |-> importance_score,
     detail_level |-> detail_level, state_delta |-> state_delta,
     metadata |-> metadata]

ValidationError == [error |-> "ValidationError"]

\* Mutant: an end_timestamp equal to the timestamp is accepted.
validate_end_timestamp_or_equal(timestamp, end_timestamp) ==
    end_timestamp = None \/ ~(Val(end_timestamp) < timestamp)

\* Event.validate_end_timestamp: TRUE when the construction goes through.
validate_end_timestamp(timestamp, end_timestamp) ==
    end_timestamp = None \/ ~(Val(end_timestamp) <= timestamp)

NewTimelineId == TimelineBase + Len(timelines) + 1

NewEventId == EventBase + Len(events) + 1

\* insert_timeline fails on the foreign key when the parent is not stored.
CreateTimeline(parent_timeline_id) ==
    /\ parent_timeline_id # None => get_timeline_by_id(Val(parent_timeline_id)) # {}
    /\ timelines' = Append(timelines, Timeline(NewTimelineId, parent_timeline_id))
    /\ op' = [name |-> "create_timeline", parent_timeline_id |-> parent_timeline_id]
    /\ result' = NewTimelineId
    /\ pre' = NoPre
    /\ UNCHANGED <<events, snapshots, entities, links, relationships>>

\* insert_event fails on the foreign key when the timeline is not stored.
\* The Event is constructed, and validated, before insert_event is called.
AddEvent(timeline_id, timestamp, event_type, description, state_delta, importance_score, end_timestamp) ==
    /\ IF validate_end_timestamp(timestamp, end_timestamp)
       THEN /\ get_timeline_by_id(timeline_id) # {}
            /\ events' = Append(events,
                                Event(NewEventId, timeline_id, timestamp, end_timestamp,
                                      event_type, description, importance_score,
                                      DefaultDetailLevel, state_delta, EmptyDict))
            /\ result' = Event(NewEventId, timeline_id, timestamp, end_timestamp,
                               event_type, description, importance_score,
                               DefaultDetailLevel, state_delta, EmptyDict)
       ELSE /\ events' = events
            /\ result' = ValidationError
    /\ op' = [name |-> "add_event", timeline_id |-> timeline_id,
              timestamp |-> timestamp, end_timestamp |-> end_timestamp]
    /\ pre' = NoPre
    /\ UNCHANGED <<timelines, snapshots, entities, links, relationships>>

\* Mutant: the rows with the event's timestamp take its detail level too.
update_event_and_copies(rows, event) ==
    [i \in 1..Len(rows) |->
        IF rows[i].id = event.id THEN event
        ELSE IF rows[i].timestamp = event.timestamp
             THEN [rows[i] EXCEPT !.detail_level = event.detail_level]
             ELSE rows[i]]

\* UPDATE events SET ... WHERE id = ?: the row of the event's id is overwritten.
update_event(rows, event) ==
    [i \in 1..Len(rows) |-> IF rows[i].id = event.id THEN event ELSE rows[i]]

\* StorageAdapter.update_event with the detail_level of a stored event changed.
UpdateEvent(event_id, detail_level) ==
    /\ \E e \in get_event_by_id(event_id) :
         /\ e.detail_level # detail_level
         /\ events' = update_event(events, [e EXCEPT !.detail_level = detail_level])
    /\ op' = [name |-> "update_event", event_id |-> event_id]
    /\ result' = None
    /\ pre' = NoPre
    /\ UNCHANGED <<timelines, snapshots, entities, links, relationships>>

\* StorageAdapter.update_event with the metadata of a stored event changed;
\* no operation of the repository sets the metadata of an event.
UpdateEventMetadata(event_id, metadata) ==
    /\ \E e \in get_event_by_id(event_id) :
         /\ e.metadata # metadata
         /\ events' = update_event(events, [e EXCEPT !.metadata = metadata])
    /\ op' = [name |-> "update_event", event_id |-> event_id]
    /\ result' = None
    /\ pre' = NoPre
    /\ UNCHANGED <<timelines, snapshots, entities, links, relationships>>

----------------------------------------------------------------------------
(* fork_timeline *)

NotFound == [error |-> "ValueError"]

\* Mutant: the event at the fork point is left out.
events_to_copy_before(source_timeline_id, from_timestamp) ==
    SelectSeq(get_events_by_timeline(source_timeline_id),
              LAMBDA e : e.timestamp < from_timestamp)

events_to_copy(source_timeline_id, from_timestamp) ==
    SelectSeq(get_events_by_timeline(source_timeline_id),
              LAMBDA e : e.timestamp <= from_timestamp)

\* The events table after the copies have been inserted, one by one.
copy_events(to_copy, forked_id) ==
    events \o [i \in 1..Len(to_copy) |->
                 Event(NewEventId + i - 1, forked_id, to_copy[i].timestamp,
                       to_copy[i].end_timestamp, to_copy[i].event_type,
                       to_copy[i].description, to_copy[i].importance_score,
                       to_copy[i].detail_level, to_copy[i].state_delta, EmptyDict)]

\* Mutant: the fork is made although the source is not stored.
fork_timeline_unchecked(source_timeline_id, from_timestamp) ==
    [timelines |-> Append(timelines, Timeline(NewTimelineId, Some(source_timeline_id))),
     events |-> copy_events(events_to_copy(source_timeline_id, from_timestamp),
                            NewTimelineId),
     result |-> Timeline(NewTimelineId, Some(source_timeline_id))]

\* The tables after the call and the value it returns or the error it raises.
fork_timeline(source_timeline_id, from_timestamp) ==
    IF get_timeline_by_id(source_timeline_id) = {}
    THEN [timelines |-> timelines, events |-> events, result |-> NotFound]
    ELSE [timelines |-> Append(timelines, Timeline(NewTimelineId, Some(source_timeline_id))),
          events |-> copy_events(events_to_copy(source_timeline_id, from_timestamp),
                                 NewTimelineId),
          result |-> Timeline(NewTimelineId, Some(source_timeline_id))]

ForkTimeline(source_timeline_id, from_timestamp) ==
    /\ timelines' = fork_timeline(source_timeline_id, from_timestamp).timelines
    /\ events' = fork_timeline(source_timeline_id, from_timestamp).events
    /\ result' = fork_timeline(source_timeline_id, from_timestamp).result
    /\ op' = [name |-> "fork_timeline", source_timeline_id |-> source_timeline_id,
              from_timestamp |-> from_timestamp]
    /\ pre' = [timelines |-> timelines, events |-> events]
    /\ UNCHANGED <<snapshots, entities, links, relationships>>

----------------------------------------------------------------------------
(* compress_events *)

\* Mutant: an event at detail level 0 is compressed as well.
compressible_at_zero(event, before, min_importance) ==
    /\ event.timestamp < before
    /\ event.importance_score < min_importance
    /\ event.detail_level >= 0

compressible(event, before, min_importance) ==
    /\ event.timestamp < before
    /\ event.importance_score < min_importance
    /\ event.detail_level > 0

\* The loop over the loaded events: the events table and the count so far.
RECURSIVE compress_loop(_, _, _, _, _)
compress_loop(loaded, rows, count, before, min_importance) ==
    IF loaded = <<>> THEN [events |-> rows, count |-> count]
    ELSE IF compressible(Head(loaded), before, min_importance)
         THEN compress_loop(Tail(loaded),
                            update_event(rows, [Head(loaded) EXCEPT !.detail_level = @ - 1]),
                            count + 1, before, min_importance)
         ELSE compress_loop(Tail(loaded), rows, count, before, min_importance)

compress_events(timeline_id, before, min_importance) ==
    compress_loop(get_events_by_timeline(timeline_id), events, 0, before, min_importance)

CompressEvents(timeline_id, before, min_importance) ==
    /\ events' = compress_events(timeline_id, before, min_importance).events
    /\ result' = compress_events(timeline_id, before, min_importance).count
    /\ op' = [name |-> "compress_events", timeline_id |-> timeline_id,
              before |-> before, min_importance |-> min_importance]
    /\ pre' = [timelines |-> timelines, events |-> events]
    /\ UNCHANGED <<timelines, snapshots, entities, links, relationships>>

----------------------------------------------------------------------------
(* compress_events, concurrent callers, one storage call at a time *)

Callers == 1..MaxCallers

\* A caller that is not inside compress_events.
NotCalling == [pc |-> "idle", loaded |-> <<>>, count |-> 0, before |-> 0, min_importance |-> 0]

NoCallers == [name |-> "callers", running |-> [c \in Callers |-> NotCalling]]

\* events = await self._storage.get_events_by_timeline(timeline_id); count = 0
StartCompress(c, timeline_id, before, min_importance) ==
    /\ op = NoCall \/ op.name = "callers"
    /\ LET running == IF op = NoCall THEN NoCallers.running ELSE op.running
       IN /\ running[c] = NotCalling
          /\ op' = [name |-> "callers",
                    running |-> [running EXCEPT ![c] =
                                    [pc |-> "loop",
                                     loaded |-> get_events_by_timeline(timeline_id),
                                     count |-> 0, before |-> before,
                                     min_importance |-> min_importance]]]
    /\ UNCHANGED <<result, pre>>
    /\ UNCHANGED storage

\* One iteration of the loop: the test on the loaded event and, when it
\* passes, the decrement of the loaded copy and update_event.
CompressStep(c) ==
    /\ op.name = "callers"
    /\ op.running[c].pc = "loop"
    /\ op.running[c].loaded # <<>>
    /\ LET call == op.running[c]
           event == Head(call.loaded)
       IN IF compressible(event, call.before, call.min_importance)
          THEN /\ events' = update_event(events, [event EXCEPT !.detail_level = @ - 1])
               /\ op' = [op EXCEPT !.running[c].loaded = Tail(@),
                                   !.running[c].count = @ + 1]
          ELSE /\ events' = events
               /\ op' = [op EXCEPT !.running[c].loaded = Tail(@)]
    /\ UNCHANGED <<result, pre>>
    /\ UNCHANGED <<timelines, snapshots, entities, links, relationships>>

\* return count
FinishCompress(c) ==
    /\ op.name = "callers"
    /\ op.running[c].pc = "loop"
    /\ op.running[c].loaded = <<>>
    /\ op' = [op EXCEPT !.running[c] = NotCalling]
    /\ result' = op.running[c].count
    /\ pre' = NoPre
    /\ UNCHANGED storage

----------------------------------------------------------------------------
(* query_events *)

query_limit(xs, limit) ==
    IF limit # None /\ Val(limit) # 0 THEN Prefix(xs, Val(limit)) ELSE xs

query_types(xs, event_types) ==
    IF event_types # None /\ Val(event_types) # {}
    THEN SelectSeq(xs, LAMBDA e : e.event_type \in Val(event_types))
    ELSE xs

query_events(timeline_id, start, end, event_types, min_importance, detail_level, limit) ==
    LET e0 == get_events_by_timeline(timeline_id)
        e1 == IF start # None
              THEN SelectSeq(e0, LAMBDA e : e.timestamp >= Val(start)) ELSE e0
        e2 == IF end # None
              THEN SelectSeq(e1, LAMBDA e : e.timestamp <= Val(end)) ELSE e1
        e3 == query_types(e2, event_types)
        e4 == IF min_importance # 0
              THEN SelectSeq(e3, LAMBDA e : e.importance_score >= min_importance) ELSE e3
        e5 == IF detail_level # None
              THEN SelectSeq(e4, LAMBDA e : e.detail_level = Val(detail_level)) ELSE e4
    IN query_limit(sorted(e5), limit)

QueryEvents(timeline_id, start, end, event_types, min_importance, detail_level, limit) ==
    /\ op' = [name |-> "query_events", timeline_id |-> timeline_id, start |-> start,
              end |-> end, event_types |-> event_types,
              min_importance |-> min_importance, detail_level |-> detail_level,
              limit |-> limit]
    /\ result' = query_events(timeline_id, start, end, event_types, min_importance,
                              detail_level, limit)
    /\ pre' = NoPre
    /\ UNCHANGED storage

----------------------------------------------------------------------------
(* State reconstruction *)

WorldState(global_properties, entity_states) ==
    [global_properties |-> global_properties, entity_states |-> entity_states]

EmptyWorldState == WorldState(EmptyDict, EmptyDict)

StateSnapshot(timeline_id, timestamp, state) ==
    [timeline_id |-> timeline_id, timestamp |-> timestamp, state |-> state]

\* datetime.min.replace(tzinfo=UTC): earlier than every timestamp
DatetimeMin == 0

get_snapshots_by_timeline(timeline_id) ==
    SelectSeq(snapshots, LAMBDA s : s.timeline_id = timeline_id)

\* insert_snapshot fails on the foreign key when the timeline is not stored.
SaveStateSnapshot(timeline_id, timestamp, state) ==
    /\ get_timeline_by_id(timeline_id) # {}
    /\ snapshots' = Append(snapshots, StateSnapshot(timeline_id, timestamp, state))
    /\ op' = [name |-> "save_state_snapshot", timeline_id |-> timeline_id]
    /\ result' = None
    /\ pre' = NoPre
    /\ UNCHANGED <<timelines, events, entities, links, relationships>>

\* max(xs, key=lambda s: s.timestamp): the first of the maximal elements
max_by_timestamp(xs) ==
    xs[CHOOSE i \in 1..Len(xs) :
         /\ \A j \in 1..Len(xs) : xs[j].timestamp <= xs[i].timestamp
         /\ \A j \in 1..(i - 1) : xs[j].timestamp < xs[i].timestamp]

\* Mutant: snapshots after the target time are kept.
snapshots_upto_any(timeline_id, timestamp) ==
    get_snapshots_by_timeline(timeline_id)

\* The snapshots reconstruct_state_at may start from.
snapshots_upto(timeline_id, timestamp) ==
    SelectSeq(get_snapshots_by_timeline(timeline_id), LAMBDA s : s.timestamp <= timestamp)

\* The state and the time the replay starts from.
replay_start(timeline_id, timestamp) ==
    LET snaps == snapshots_upto(timeline_id, timestamp)
    IN IF snaps # <<>>
       THEN [state |-> max_by_timestamp(snaps).state,
             start_time |-> max_by_timestamp(snaps).timestamp]
       ELSE [state |-> EmptyWorldState, start_time |-> DatetimeMin]

\* The changes of one entity merged into the entity states.
apply_entity_changes(entity_states, entity_id, changes) ==
    LET old == IF entity_id \in DOMAIN entity_states
               THEN entity_states[entity_id] ELSE EmptyDict
    IN update(entity_states, [i \in {entity_id} |-> update(old, changes)])

\* Mutant: the filter is not looked at.
entity_selected_always(entity_id, entity_ids) == TRUE

\* if entity_ids is None or entity_id in entity_ids
entity_selected(entity_id, entity_ids) ==
    entity_ids = None \/ entity_id \in Val(entity_ids)

RECURSIVE apply_entities(_, _, _, _)
apply_entities(entity_states, entity_changes, todo, entity_ids) ==
    IF todo = {} THEN entity_states
    ELSE LET entity_id == CHOOSE i \in todo : TRUE
             next == IF entity_selected(entity_id, entity_ids)
                     THEN apply_entity_changes(entity_states, entity_id,
                                               entity_changes[entity_id])
                     ELSE entity_states
         IN apply_entities(next, entity_changes, todo \ {entity_id}, entity_ids)

\* Mutant: a property that is already set keeps its value.
apply_delta_first_write(state, event, entity_ids) ==
    WorldState(update(event.state_delta.global_changes, state.global_properties),
               apply_entities(state.entity_states, event.state_delta.entity_changes,
                              DOMAIN event.state_delta.entity_changes, entity_ids))

\* The body of the replay loop: one event's delta applied to the state.
apply_delta(state, event, entity_ids) ==
    WorldState(update(state.global_properties, event.state_delta.global_changes),
               apply_entities(state.entity_states, event.state_delta.entity_changes,
                              DOMAIN event.state_delta.entity_changes, entity_ids))

RECURSIVE replay(_, _, _)
replay(state, evs, entity_ids) ==
    IF evs = <<>> THEN state
    ELSE replay(apply_delta(state, Head(evs), entity_ids), Tail(evs), entity_ids)

reconstruct_state_at(timeline_id, timestamp, entity_ids) ==
    LET from == replay_start(timeline_id, timestamp)
        evs == query_events(timeline_id, Some(from.start_time), Some(timestamp),
                            None, 0, None, None)
    IN replay(from.state, evs, entity_ids)

ReconstructStateAt(timeline_id, timestamp, entity_ids) ==
    /\ op' = [name |-> "reconstruct_state_at", timeline_id |-> timeline_id,
              timestamp |-> timestamp, entity_ids |-> entity_ids]
    /\ result' = reconstruct_state_at(timeline_id, timestamp, entity_ids)
    /\ pre' = NoPre
    /\ UNCHANGED storage

\* TimelineService.save_checkpoint: the state reconstructed at the timestamp
\* is saved as a snapshot at that timestamp.
SaveCheckpoint(timeline_id, timestamp) ==
    /\ get_timeline_by_id(timeline_id) # {}
    /\ snapshots' = Append(snapshots,
                           StateSnapshot(timeline_id, timestamp,
                                         reconstruct_state_at(timeline_id, timestamp, None)))
    /\ op' = [name |-> "save_checkpoint", timeline_id |-> timeline_id,
              timestamp |-> timestamp]
    /\ result' = None
    /\ pre' = NoPre
    /\ UNCHANGED <<timelines, events, entities, links, relationships>>

----------------------------------------------------------------------------
(* Entities and event-entity links *)

\* str.lower() on the roles of the model
lower(role) == IF role = "Actor" THEN "actor" ELSE role

Entity(id) == [id |-> id]

NewEntityId == EntityBase + Len(entities) + 1

get_entity_by_id(entity_id) ==
    {x \in Range(entities) : x.id = entity_id}

CreateEntity ==
    /\ entities' = Append(entities, Entity(NewEntityId))
    /\ op' = [name |-> "create_entity"]
    /\ result' = NewEntityId
    /\ pre' = NoPre
    /\ UNCHANGED <<timelines, events, snapshots, links, relationships>>

EventEntityLink(event_id, entity_id, role) ==
    [event_id |-> event_id, entity_id |-> entity_id, role |-> role]

\* insert_event_entity_link stores the role in lower case.  The insert fails
\* on a foreign key when the event or the entity is not stored and on the
\* primary key when the same triple is stored already.
LinkEventEntity(event_id, entity_id, role) ==
    /\ get_event_by_id(event_id) # {}
    /\ get_entity_by_id(entity_id) # {}
    /\ EventEntityLink(event_id, entity_id, lower(role)) \notin links
    /\ links' = links \cup {EventEntityLink(event_id, entity_id, lower(role))}
    /\ op' = [name |-> "link_event_entity", event_id |-> event_id,
              entity_id |-> entity_id, role |-> role]
    /\ result' = None
    /\ pre' = NoPre
    /\ UNCHANGED <<timelines, events, snapshots, entities, relationships>>

get_event_entity_links_by_entity(entity_id) ==
    {l \in links : l.entity_id = entity_id}

\* Mutant: the role is not looked at.
links_with_any_role(ls, role) == ls

\* if role: links = [(eid, r) for eid, r in links if r == role]
links_with_role(ls, role) ==
    IF role # None /\ Val(role) # ""
    THEN {l \in ls : l.role = Val(role)}
    ELSE ls

\* The filters of get_entity_events, before the sort.
entity_events_unsorted(entity_id, timeline_id, start, end, role) ==
    LET event_ids == {l.event_id :
                        l \in links_with_role(get_event_entity_links_by_entity(entity_id),
                                              role)}
        e0 == SelectSeq(get_events_by_timeline(timeline_id), LAMBDA e : e.id \in event_ids)
        e1 == IF start # None
              THEN SelectSeq(e0, LAMBDA e : e.timestamp >= Val(start)) ELSE e0
    IN IF end # None
       THEN SelectSeq(e1, LAMBDA e : e.timestamp <= Val(end)) ELSE e1

get_entity_events(entity_id, timeline_id, start, end, role) ==
    sorted(entity_events_unsorted(entity_id, timeline_id, start, end, role))

GetEntityEvents(entity_id, timeline_id, start, end, role) ==
    /\ op' = [name |-> "get_entity_events", entity_id |-> entity_id,
              timeline_id |-> timeline_id, start |-> start, end |-> end, role |-> role]
    /\ result' = get_entity_events(entity_id, timeline_id, start, end, role)
    /\ pre' = NoPre
    /\ UNCHANGED storage

get_events_at_location(location_id, timeline_id, start, end) ==
    get_entity_events(location_id, timeline_id, start, end, Some("location"))

GetEventsAtLocation(location_id, timeline_id, start, end) ==
    /\ op' = [name |-> "get_events_at_location", location_id |-> location_id,
              timeline_id |-> timeline_id, start |-> start, end |-> end]
    /\ result' = get_events_at_location(location_id, timeline_id, start, end)
    /\ pre' = NoPre
    /\ UNCHANGED storage

\* {e.id for e in events} of get_entity_events, for one entity
entity_event_ids(entity_id, timeline_id, start, end) ==
    {e.id : e \in Range(get_entity_events(entity_id, timeline_id, start, end, None))}

\* all_event_ids: the union over the entities
any_ids(entity_ids, timeline_id, start, end) ==
    UNION {entity_event_ids(x, timeline_id, start, end) : x \in entity_ids}

\* Mutant: the events of any of the entities are taken.
common_ids_union(entity_ids, timeline_id, start, end) ==
    any_ids(entity_ids, timeline_id, start, end)

\* common_ids: set.intersection(*event_sets) if event_sets else set()
common_ids(entity_ids, timeline_id, start, end) ==
    IF entity_ids = {} THEN {}
    ELSE {id \in any_ids(entity_ids, timeline_id, start, end) :
            \A x \in entity_ids : id \in entity_event_ids(x, timeline_id, start, end)}

\* entity_ids is a list; only the set of its elements matters to the
\* intersection and to the union.
get_events_with_entities(entity_ids, timeline_id, match_all, start, end) ==
    LET ids == IF match_all THEN common_ids(entity_ids, timeline_id, start, end)
               ELSE any_ids(entity_ids, timeline_id, start, end)
    IN sorted(SelectSeq(get_events_by_timeline(timeline_id), LAMBDA e : e.id \in ids))

GetEventsWithEntities(entity_ids, timeline_id, match_all, start, end) ==
    /\ op' = [name |-> "get_events_with_entities", entity_ids |-> entity_ids,
              timeline_id |-> timeline_id, match_all |-> match_all,
              start |-> start, end |-> end]
    /\ result' = get_events_with_entities(entity_ids, timeline_id, match_all, start, end)
    /\ pre' = NoPre
    /\ UNCHANGED storage

----------------------------------------------------------------------------
(* Relationships and causality *)

SourceType == {"event", "entity"}

Relationship(source_id, source_type, target_id, target_type, relation_type, valid_from, valid_until) ==
    [source_id |-> source_id, source_type |-> source_type, target_id |-> target_id,
     target_type |-> target_type, relation_type |-> relation_type,
     valid_from |-> valid_from, valid_until |-> valid_until]

\* Relationship.validate_valid_until: TRUE when the construction goes through.
validate_valid_until(valid_from, valid_until) ==
    valid_until = None \/ valid_from = None \/ ~(Val(valid_until) <= Val(valid_from))

\* The Relationship is constructed, and validated, before insert_relationship
\* is called.  The relationships table has no foreign key: the endpoints need
\* not be stored.
CreateRelationship(source_id, source_type, target_id, target_type, relation_type, valid_from, valid_until) ==
    /\ IF validate_valid_until(valid_from, valid_until)
       THEN /\ relationships' = Append(relationships,
                                       Relationship(source_id, source_type, target_id,
                                                    target_type, relation_type,
                                                    valid_from, valid_until))
            /\ result' = Relationship(source_id, source_type, target_id, target_type,
                                      relation_type, valid_from, valid_until)
       ELSE /\ relationships' = relationships
            /\ result' = ValidationError
    /\ op' = [name |-> "create_relationship", valid_from |-> valid_from,
              valid_until |-> valid_until]
    /\ pre' = NoPre
    /\ UNCHANGED <<timelines, events, snapshots, entities, links>>

get_relationships_by_source(source_id, source_type) ==
    SelectSeq(relationships,
              LAMBDA r : r.source_id = source_id /\ r.source_type = source_type)

get_relationships_by_target(target_id, target_type) ==
    SelectSeq(relationships,
              LAMBDA r : r.target_id = target_id /\ r.target_type = target_type)

\* Mutant: relationships of every type are followed.
any_rels(current_id, forward) ==
    IF forward THEN get_relationships_by_source(current_id, "event")
    ELSE get_relationships_by_target(current_id, "event")

\* The relationships bfs follows from an event.
causal_rels(current_id, forward) ==
    SelectSeq(IF forward THEN get_relationships_by_source(current_id, "event")
              ELSE get_relationships_by_target(current_id, "event"),
              LAMBDA r : r.relation_type = "causal")

\* visited = set(), paths = [] at the start of a call; expanded is the log
\* of the events whose relationships were fetched, with the depth of each.
NoneVisited == [visited |-> {}, paths |-> <<>>, expanded |-> <<>>]

\* Mutant: no event counts as visited.
never_visited(current_id, acc) == FALSE

\* current_id in visited
already_visited(current_id, acc) == current_id \in acc.visited

\* Mutant: the traversal goes one level past max_depth.
too_deep_by_two(depth, max_depth) == depth > max_depth + 1

\* depth > max_depth
too_deep(depth, max_depth) == depth > max_depth

\* The inner function bfs of trace_causality and its loop over the
\* relationships; acc holds the visited set and the paths found so far.
RECURSIVE bfs(_, _, _, _, _, _)
RECURSIVE bfs_each(_, _, _, _, _, _)
bfs(current_id, depth, path, acc, max_depth, forward) ==
    IF too_deep(depth, max_depth) \/ already_visited(current_id, acc) THEN acc
    ELSE LET seen == [acc EXCEPT !.visited = @ \cup {current_id}]
             found == get_event_by_id(current_id)
         IN IF found = {} THEN seen
            ELSE LET current_path == Append(path, CHOOSE e \in found : TRUE)
                     rels == causal_rels(current_id, forward)
                     here == [seen EXCEPT !.expanded =
                                 Append(@, [id |-> current_id, depth |-> depth])]
                 IN IF rels = <<>>
                    THEN [here EXCEPT !.paths = Append(@, current_path)]
                    ELSE bfs_each(rels, depth + 1, current_path, here, max_depth, forward)

bfs_each(rels, depth, path, acc, max_depth, forward) ==
    IF rels = <<>> THEN acc
    ELSE bfs_each(Tail(rels), depth, path,
                  bfs(IF forward THEN Head(rels).target_id ELSE Head(rels).source_id,
                      depth, path, acc, max_depth, forward),
                  max_depth, forward)

\* Mutant: a start that is not stored gives one path with no event.
trace_causality_from_any(event_id, max_depth, forward) ==
    IF get_event_by_id(event_id) = {} THEN << <<>> >>
    ELSE bfs(event_id, 0, <<>>, NoneVisited, max_depth, forward).paths

trace_causality(event_id, max_depth, forward) ==
    bfs(event_id, 0, <<>>, NoneVisited, max_depth, forward).paths

TraceCausality(event_id, max_depth, forward) ==
    /\ op' = [name |-> "trace_causality", event_id |-> event_id,
              max_depth |-> max_depth, forward |-> forward]
    /\ result' = trace_causality(event_id, max_depth, forward)
    /\ pre' = NoPre
    /\ UNCHANGED storage

----------------------------------------------------------------------------
(* get_timeline_tree *)

get_timelines_by_parent(parent_timeline_id) ==
    SelectSeq(timelines, LAMBDA t : t.parent_timeline_id = Some(parent_timeline_id))

\* Mutant: the traversal stops one level early.
beyond_max_depth_or_at(depth, max_depth) == depth >= max_depth

\* Mutant: the traversal goes two levels further.
beyond_max_depth_by_two(depth, max_depth) == depth > max_depth + 2

\* if depth > max_depth: return
beyond_max_depth(depth, max_depth) == depth > max_depth

\* The inner function traverse of get_timeline_tree and its loop over the
\* children; acc is the result list so far.
RECURSIVE traverse(_, _, _, _)
RECURSIVE traverse_each(_, _, _, _)
traverse(timeline_id, depth, acc, max_depth) ==
    IF beyond_max_depth(depth, max_depth) THEN acc
    ELSE LET found == get_timeline_by_id(timeline_id)
         IN IF found = {} THEN acc
            ELSE traverse_each(get_timelines_by_parent(timeline_id), depth + 1,
                               Append(acc, CHOOSE t \in found : TRUE), max_depth)

traverse_each(children, depth, acc, max_depth) ==
    IF children = <<>> THEN acc
    ELSE traverse_each(Tail(children), depth,
                       traverse(Head(children).id, depth, acc, max_depth), max_depth)

get_timeline_tree(root_timeline_id, max_depth) ==
    traverse(root_timeline_id, 0, <<>>, max_depth)

GetTimelineTree(root_timeline_id, max_depth) ==
    /\ op' = [name |-> "get_timeline_tree", root_timeline_id |-> root_timeline_id,
              max_depth |-> max_depth]
    /\ result' = get_timeline_tree(root_timeline_id, max_depth)
    /\ pre' = NoPre
    /\ UNCHANGED storage

----------------------------------------------------------------------------
(* get_relationships *)

\* The validity test of the at_time filter.
valid_at(r, at_time) ==
    /\ r.valid_from = None \/ Val(r.valid_from) <= at_time
    /\ r.valid_until = None \/ Val(r.valid_until) >= at_time

\* Both lookups are made with SourceType.EVENT.
get_relationships(entity_id, relation_type, at_time, as_source, as_target) ==
    LET r0 == (IF as_source THEN get_relationships_by_source(entity_id, "event")
               ELSE <<>>)
              \o (IF as_target THEN get_relationships_by_target(entity_id, "event")
                  ELSE <<>>)
        r1 == IF relation_type # None
              THEN SelectSeq(r0, LAMBDA r : r.relation_type = Val(relation_type))
              ELSE r0
    IN IF at_time # None
       THEN SelectSeq(r1, LAMBDA r : valid_at(r, Val(at_time)))
       ELSE r1

GetRelationships(entity_id, relation_type, at_time, as_source, as_target) ==
    /\ op' = [name |-> "get_relationships", entity_id |-> entity_id,
              relation_type |-> relation_type, at_time |-> at_time,
              as_source |-> as_source, as_target |-> as_target]
    /\ result' = get_relationships(entity_id, relation_type, at_time, as_source,
                                   as_target)
    /\ pre' = NoPre
    /\ UNCHANGED storage

----------------------------------------------------------------------------
(* get_events_before, get_events_after *)

\* sorted(xs, key=lambda e: e.timestamp, reverse=True): stable, descending.
sorted_reverse(xs) ==
    LET n == Len(xs)
        pos(i) == Cardinality({j \in 1..n : xs[j].timestamp > xs[i].timestamp})
                  + Cardinality({j \in 1..i : xs[j].timestamp = xs[i].timestamp})
    IN [p \in 1..n |-> xs[CHOOSE i \in 1..n : pos(i) = p]]

\* Mutant: the events at the timestamp are kept.
events_upto(xs, timestamp) ==
    SelectSeq(xs, LAMBDA e : e.timestamp <= timestamp)

\* [e for e in events if e.timestamp < timestamp]
events_before(xs, timestamp) ==
    SelectSeq(xs, LAMBDA e : e.timestamp < timestamp)

\* [e for e in events if e.timestamp > timestamp]
events_after(xs, timestamp) ==
    SelectSeq(xs, LAMBDA e : e.timestamp > timestamp)

\* limit >= 0: events[:limit]
get_events_before(timeline_id, timestamp, limit) ==
    Prefix(sorted_reverse(events_before(get_events_by_timeline(timeline_id), timestamp)),
           limit)

get_events_after(timeline_id, timestamp, limit) ==
    Prefix(sorted(events_after(get_events_by_timeline(timeline_id), timestamp)), limit)

GetEventsBefore(timeline_id, timestamp, limit) ==
    /\ op' = [name |-> "get_events_before", timeline_id |-> timeline_id,
              timestamp |-> timestamp, limit |-> limit]
    /\ result' = get_events_before(timeline_id, timestamp, limit)
    /\ pre' = NoPre
    /\ UNCHANGED storage

GetEventsAfter(timeline_id, timestamp, limit) ==
    /\ op' = [name |-> "get_events_after", timeline_id |-> timeline_id,
              timestamp |-> timestamp, limit |-> limit]
    /\ result' = get_events_after(timeline_id, timestamp, limit)
    /\ pre' = NoPre
    /\ UNCHANGED storage

----------------------------------------------------------------------------
(* get_event_entities *)

\* StorageAdapter.delete_entity.  The SQLite schema deletes the links of the
\* entity with it (ON DELETE CASCADE); the port asks only that the entity
\* record be deleted, so an adapter may keep them.
DeleteEntity(entity_id, cascade) ==
    /\ get_entity_by_id(entity_id) # {}
    /\ entities' = SelectSeq(entities, LAMBDA x : x.id # entity_id)
    /\ links' = IF cascade THEN {l \in links : l.entity_id # entity_id} ELSE links
    /\ op' = [name |-> "delete_entity", entity_id |-> entity_id]
    /\ result' = None
    /\ pre' = NoPre
    /\ UNCHANGED <<timelines, events, snapshots, relationships>>

get_event_entity_links_by_event(event_id) ==
    {l \in links : l.event_id = event_id}

EntityEventLink(entity, role) == [entity |-> entity, role |-> role]

\* Mutant: a link is hydrated although its entity is not stored.
linked_entity_unchecked(entity_id) == {Entity(entity_id)}

\* entity = await get_entity_by_id(entity_id); if entity: ...
linked_entity(entity_id) == get_entity_by_id(entity_id)

\* The entries of the result list; the links of an event differ in entity or
\* role, so the entries are distinct.
get_event_entities(event_id) ==
    UNION {{EntityEventLink(x, l.role) : x \in linked_entity(l.entity_id)} :
             l \in get_event_entity_links_by_event(event_id)}

GetEventEntities(event_id) ==
    /\ op' = [name |-> "get_event_entities", event_id |-> event_id]
    /\ result' = get_event_entities(event_id)
    /\ pre' = NoPre
    /\ UNCHANGED storage

----------------------------------------------------------------------------
(* get_timeline_summary *)

TimelineSummary(event_count, first_event, last_event) ==
    [event_count |-> event_count, first_event |-> first_event,
     last_event |-> last_event]

\* Mutant: the events after at_time are counted as well.
summary_events_all(timeline_id, at_time) ==
    query_events(timeline_id, None, None, None, 0, None, None)

\* events = await self.query_events(timeline_id=timeline_id, end=at_time)
summary_events(timeline_id, at_time) ==
    query_events(timeline_id, None, Some(at_time), None, 0, None, None)

get_timeline_summary(timeline_id, at_time) ==
    LET evs == summary_events(timeline_id, at_time)
        stamps == {evs[i].timestamp : i \in 1..Len(evs)}
    IN IF evs = <<>> THEN TimelineSummary(0, None, None)
       ELSE TimelineSummary(Len(evs),
                            Some(CHOOSE t \in stamps : \A u \in stamps : t <= u),
                            Some(CHOOSE t \in stamps : \A u \in stamps : t >= u))

GetTimelineSummary(timeline_id, at_time) ==
    /\ op' = [name |-> "get_timeline_summary", timeline_id |-> timeline_id,
              at_time |-> at_time]
    /\ result' = get_timeline_summary(timeline_id, at_time)
    /\ pre' = NoPre
    /\ UNCHANGED storage

----------------------------------------------------------------------------
(* trace_causality, one invocation of bfs at a time *)

\* A pending invocation bfs(current_id, depth, path).
Frame(current_id, depth, path) == [id |-> current_id, depth |-> depth, path |-> path]

\* for rel in rels: await bfs(next_id, depth + 1, current_path), the first
\* relationship first.
child_frames(rels, depth, path, forward) ==
    [i \in 1..Len(rels) |->
        Frame(IF forward THEN rels[i].target_id ELSE rels[i].source_id, depth + 1, path)]

\* Mutant: the invocation does not return.
never_returned(stack) == stack

\* return: the invocation is over.
returned(stack) == Tail(stack)

\* await bfs(event_id, 0, [])
StartTrace(event_id, max_depth, forward) ==
    /\ op' = [name |-> "bfs", event_id |-> event_id, max_depth |-> max_depth,
              forward |-> forward, stack |-> <<Frame(event_id, 0, <<>>)>>,
              visited |-> {}, paths |-> <<>>]
    /\ result' = None
    /\ pre' = NoPre
    /\ UNCHANGED storage

\* One invocation of bfs, up to its recursive calls, which it leaves pending.
BfsStep ==
    /\ op.name = "bfs"
    /\ op.stack # <<>>
    /\ LET frame == Head(op.stack)
           found == get_event_by_id(frame.id)
           rels == causal_rels(frame.id, op.forward)
           current_path == Append(frame.path, CHOOSE e \in found : TRUE)
       IN IF too_deep(frame.depth, op.max_depth) \/ already_visited(frame.id, op)
          THEN op' = [op EXCEPT !.stack = returned(@)]
          ELSE IF found = {}
          THEN op' = [op EXCEPT !.stack = returned(@),
                                !.visited = @ \cup {frame.id}]
          ELSE IF rels = <<>>
          THEN op' = [op EXCEPT !.stack = returned(@),
                                !.visited = @ \cup {frame.id},
                                !.paths = Append(@, current_path)]
          ELSE op' = [op EXCEPT !.stack = child_frames(rels, frame.depth, current_path,
                                                       op.forward) \o returned(@),
                                !.visited = @ \cup {frame.id}]
    /\ UNCHANGED <<result, pre>>
    /\ UNCHANGED storage

\* return paths
FinishTrace ==
    /\ op.name = "bfs"
    /\ op.stack = <<>>
    /\ op' = [name |-> "trace_causality", event_id |-> op.event_id,
              max_depth |-> op.max_depth, forward |-> op.forward]
    /\ result' = op.paths
    /\ pre' = NoPre
    /\ UNCHANGED storage

----------------------------------------------------------------------------
(* get_timeline_tree, one invocation of traverse at a time *)

\* StorageAdapter.update_timeline: the row with this id gets the given
\* parent; the foreign key on parent_timeline_id asks for a stored parent,
\* which may be the timeline itself or one of its descendants.
UpdateTimeline(timeline_id, parent_timeline_id) ==
    /\ parent_timeline_id # None => get_timeline_by_id(Val(parent_timeline_id)) # {}
    /\ timelines' = [i \in 1..Len(timelines) |->
                        IF timelines[i].id = timeline_id
                        THEN Timeline(timeline_id, parent_timeline_id)
                        ELSE timelines[i]]
    /\ op' = [name |-> "update_timeline", timeline_id |-> timeline_id,
              parent_timeline_id |-> parent_timeline_id]
    /\ result' = None
    /\ pre' = NoPre
    /\ UNCHANGED <<events, snapshots, entities, links, relationships>>

\* A pending invocation traverse(timeline_id, depth); branch lists the
\* timelines appended by the invocations it is nested in, outermost first.
TreeFrame(timeline_id, depth, branch) ==
    [id |-> timeline_id, depth |-> depth, branch |-> branch]

\* for child in children: await traverse(child.id, depth + 1)
tree_child_frames(children, depth, branch) ==
    [i \in 1..Len(children) |-> TreeFrame(children[i].id, depth + 1, branch)]

\* result = []; await traverse(root_timeline_id, 0)
StartTree(root_timeline_id, max_depth) ==
    /\ op' = [name |-> "traverse", root_timeline_id |-> root_timeline_id,
              max_depth |-> max_depth,
              stack |-> <<TreeFrame(root_timeline_id, 0, <<>>)>>,
              result |-> <<>>, longest |-> 0]
    /\ result' = None
    /\ pre' = NoPre
    /\ UNCHANGED storage

\* One invocation of traverse, up to its recursive calls, which it leaves
\* pending.
TraverseStep ==
    /\ op.name = "traverse"
    /\ op.stack # <<>>
    /\ LET frame == Head(op.stack)
           found == get_timeline_by_id(frame.id)
           branch == Append(frame.branch, frame.id)
       IN IF beyond_max_depth(frame.depth, op.max_depth) \/ found = {}
          THEN op' = [op EXCEPT !.stack = Tail(@)]
          ELSE op' = [op EXCEPT !.stack = tree_child_frames(get_timelines_by_parent(frame.id),
                                                            frame.depth, branch) \o Tail(@),
                                !.result = Append(@, CHOOSE t \in found : TRUE),
                                !.longest = IF Len(branch) > @ THEN Len(branch) ELSE @]
    /\ UNCHANGED <<result, pre>>
    /\ UNCHANGED storage

\* return result
FinishTree ==
    /\ op.name = "traverse"
    /\ op.stack = <<>>
    /\ op' = [name |-> "get_timeline_tree", root_timeline_id |-> op.root_timeline_id,
              max_depth |-> op.max_depth, longest |-> op.longest]
    /\ result' = op.result
    /\ pre' = NoPre
    /\ UNCHANGED storage

----------------------------------------------------------------------------
(* Event queries: two timelines, events of every type, score and level *)

NextQuery ==
    \/ /\ Idle
       /\ \/ /\ Len(timelines) < MaxTimelines
             /\ CreateTimeline(None)
          \/ /\ Len(events) < MaxEvents
             /\ \E t \in TimelineIds, ts \in Times, ty \in EventType,
                   imp \in ImportanceScores :
                  AddEvent(t, ts, ty, "d", EmptyDelta, imp, None)
          \/ \E e \in EventIds, d \in DetailLevels : UpdateEvent(e, d)
          \/ \E t \in TimelineIds, limit \in Optional(0..MaxLimit),
                start \in Optional(Times), end \in Optional(Times),
                tys \in Optional(SUBSET EventType), imp \in ImportanceScores,
                d \in Optional(DetailLevels) :
                  QueryEvents(t, start, end, tys, imp, d, limit)
    \/ Return

SpecQuery == Init /\ [][NextQuery]_vars

----------------------------------------------------------------------------
(* Forks and compression: a source and another timeline, one fork *)

Forks == {t \in Range(timelines) : t.parent_timeline_id # None}

NextFork ==
    \/ /\ Idle
       /\ \/ /\ Len(timelines) - Cardinality(Forks) < MaxTimelines
             /\ CreateTimeline(None)
          \/ /\ Len(events) < MaxEvents
             /\ \E t \in ForkIds, ts \in Times, imp \in ImportanceScores :
                  AddEvent(t, ts, "observation", "d", EmptyDelta, imp, None)
          \/ \E e \in CopyIds, d \in DetailLevels : UpdateEvent(e, d)
          \/ /\ Cardinality(Forks) < MaxForks
             /\ \E t \in ForkIds, ts \in Times : ForkTimeline(t, ts)
          \/ \E t \in ForkIds, before \in 1..(MaxTime + 1), imp \in Thresholds :
               CompressEvents(t, before, imp)
    \/ Return

SpecFork == Init /\ [][NextFork]_vars

----------------------------------------------------------------------------
(* Links: events of two timelines linked to entities under roles *)

NextLinks ==
    \/ /\ Idle
       /\ \/ /\ Len(timelines) < MaxTimelines
             /\ CreateTimeline(None)
          \/ /\ Len(events) < MaxEvents
             /\ \E t \in TimelineIds, ts \in Times :
                  AddEvent(t, ts, "observation", "d", EmptyDelta, 5, None)
          \/ /\ Len(entities) < MaxEntities
             /\ CreateEntity
          \/ \E e \in EventIds, x \in EntityIds, r \in Roles : LinkEventEntity(e, x, r)
          \/ \E x \in EntityIds, t \in TimelineIds, start \in Optional(Times),
                end \in Optional(Times), r \in Optional(Roles) :
               GetEntityEvents(x, t, start, end, r)
          \/ \E x \in EntityIds, t \in TimelineIds, start \in Optional(Times),
                end \in Optional(Times) :
               GetEventsAtLocation(x, t, start, end)
          \/ \E xs \in SUBSET EntityIds, t \in TimelineIds, all \in BOOLEAN,
                start \in Optional(Times), end \in Optional(Times) :
               GetEventsWithEntities(xs, t, all, start, end)
    \/ Return

SpecLinks == Init /\ [][NextLinks]_vars

----------------------------------------------------------------------------
(* Causality: events of one timeline joined by relationships *)

NextCausal ==
    \/ /\ Idle
       /\ \/ /\ Len(timelines) < 1
             /\ CreateTimeline(None)
          \/ /\ Len(events) < MaxChainEvents
             /\ \E t \in TimelineIds : AddEvent(t, 1, "observation", "d", EmptyDelta, 5, None)
          \/ /\ Len(relationships) < MaxRelationships
             /\ \E a \in ChainIds, b \in ChainIds, ty \in RelationType :
                  CreateRelationship(a, "event", b, "event", ty, None, None)
          \/ \E e \in ChainIds, d \in 0..MaxDepth, forward \in BOOLEAN :
               TraceCausality(e, d, forward)
    \/ Return

SpecCausal == Init /\ [][NextCausal]_vars

----------------------------------------------------------------------------
(* State reconstruction: events that change global properties, snapshots *)

Keys == {"x", "y"}

Values == {1, 2}

Dicts == UNION {[D -> Values] : D \in {S \in SUBSET Keys : Cardinality(S) <= MaxChanges}}

NextState ==
    \/ /\ Idle
       /\ \/ /\ Len(timelines) < MaxTimelines
             /\ CreateTimeline(None)
          \/ /\ Len(events) < MaxEvents
             /\ \E t \in TimelineIds, ts \in Times, g \in Dicts :
                  AddEvent(t, ts, "observation", "d", StateDelta(g, EmptyDict), 5, None)
          \/ /\ Len(snapshots) < MaxSnapshots
             /\ \E t \in TimelineIds, ts \in Times, g \in Dicts :
                  SaveStateSnapshot(t, ts, WorldState(g, EmptyDict))
          \/ \E t \in TimelineIds, ts \in Times :
               ReconstructStateAt(t, ts, None)
    \/ Return

SpecState == Init /\ [][NextState]_vars

----------------------------------------------------------------------------
(* Properties of query_events *)

IsQuery == op.name = "query_events"

\* What the filters of a query_events call ask of an event: a filter that is
\* supplied (not None) constrains the event, one that is omitted does not.
Satisfies(e, q) ==
    /\ e.timeline_id = q.timeline_id
    /\ q.start # None => e.timestamp >= Val(q.start)
    /\ q.end # None => e.timestamp <= Val(q.end)
    /\ q.event_types # None => e.event_type \in Val(q.event_types)
    /\ e.importance_score >= q.min_importance
    /\ q.detail_level # None => e.detail_level = Val(q.detail_level)

Qualifying(q) == {e \in Range(events) : Satisfies(e, q)}

Ascending(xs) ==
    \A i \in 1..Len(xs), j \in 1..Len(xs) : i < j => xs[i].timestamp <= xs[j].timestamp

NoDuplicates(xs) ==
    \A i \in 1..Len(xs), j \in 1..Len(xs) : i # j => xs[i].id # xs[j].id

Min(a, b) == IF a < b THEN a ELSE b

\* C1: whatever the filters, the result of query_events is sorted ascending
\* by timestamp, each of its elements satisfies every supplied filter, and
\* with a limit k >= 0 it holds the k earliest qualifying events (all of
\* them when fewer than k qualify).
C1_QuerySortedFilteredLimited ==
    IsQuery =>
        /\ Ascending(result)
        /\ \A i \in 1..Len(result) : Satisfies(result[i], op)
        /\ op.limit # None =>
              /\ NoDuplicates(result)
              /\ Len(result) = Min(Val(op.limit), Cardinality(Qualifying(op)))
              /\ \A e \in Qualifying(op) \ Range(result) :
                    \A i \in 1..Len(result) : result[i].timestamp <= e.timestamp

\* C2: without a limit query_events returns exactly the events of the
\* timeline that satisfy the conjunction of the supplied filters (window
\* inclusive at both ends, type in the permitted set, importance at least
\* the minimum, detail level equal), each once.
C2_QueryExactlyTheQualifying ==
    (IsQuery /\ op.limit = None) =>
        /\ Range(result) = Qualifying(op)
        /\ NoDuplicates(result)

----------------------------------------------------------------------------
(* Properties of reconstruct_state_at *)

IsReconstruct == op.name = "reconstruct_state_at"

EventsOf(timeline_id) == {e \in Range(events) : e.timeline_id = timeline_id}

SnapshotsOf(timeline_id) == {s \in Range(snapshots) : s.timeline_id = timeline_id}

\* The events among W that set the global property k.
Writers(W, k) == {e \in W : k \in DOMAIN e.state_delta.global_changes}

\* props is base overwritten, key by key, by the value of an event of W that
\* sets the key and that no event of W setting the key comes after in time.
LastWriteWins(props, base, W) ==
    /\ DOMAIN props = DOMAIN base \cup {k \in Keys : Writers(W, k) # {}}
    /\ \A k \in DOMAIN props :
          IF Writers(W, k) = {}
          THEN props[k] = base[k]
          ELSE \E e \in Writers(W, k) :
                 /\ \A f \in Writers(W, k) : f.timestamp <= e.timestamp
                 /\ props[k] = e.state_delta.global_changes[k]

\* C3: with no snapshot stored for the timeline, reconstruct_state_at(T, t)
\* gives every global property the value written by the last event of T, in
\* timestamp order, with timestamp <= t that sets it, and leaves out a
\* property that no such event sets.
C3_NoSnapshotLastWriteWins ==
    (IsReconstruct /\ SnapshotsOf(op.timeline_id) = {}) =>
        LastWriteWins(result.global_properties, EmptyDict,
                      {e \in EventsOf(op.timeline_id) : e.timestamp <= op.timestamp})

\* C3 witness: two events of the timeline set x at different times, the later
\* one not after t, and the reconstruction at t has the later value; no
\* snapshot is stored.
C3_Witness ==
    /\ IsReconstruct
    /\ SnapshotsOf(op.timeline_id) = {}
    /\ \E e1 \in EventsOf(op.timeline_id), e2 \in EventsOf(op.timeline_id) :
          /\ e1.timestamp < e2.timestamp
          /\ e2.timestamp <= op.timestamp
          /\ "x" \in DOMAIN e1.state_delta.global_changes
          /\ "x" \in DOMAIN e2.state_delta.global_changes
          /\ e1.state_delta.global_changes["x"] # e2.state_delta.global_changes["x"]
          /\ result.global_properties["x"] = e2.state_delta.global_changes["x"]

\* C4: reconstruct_state_at(T, t) starts from the state of a snapshot of T
\* with the greatest timestamp among those <= t (from the empty state when
\* there is none, never from a snapshot after t) and applies on top of it
\* the events of T with snapshot timestamp <= timestamp <= t.
C4_NearestSnapshotThenReplay ==
    IsReconstruct =>
        LET S == {s \in SnapshotsOf(op.timeline_id) : s.timestamp <= op.timestamp}
            Window(from) == {e \in EventsOf(op.timeline_id) :
                               from <= e.timestamp /\ e.timestamp <= op.timestamp}
        IN IF S = {}
           THEN LastWriteWins(result.global_properties, EmptyDict, Window(DatetimeMin))
           ELSE \E s \in S :
                  /\ \A r \in S : r.timestamp <= s.timestamp
                  /\ LastWriteWins(result.global_properties, s.state.global_properties,
                                   Window(s.timestamp))

\* C4 witness: the timeline has two snapshots with different states, the
\* other one either earlier than the one the replay starts from or after t,
\* and an event exactly at the starting snapshot's timestamp whose change
\* shows in the result on top of that snapshot.
C4_Witness ==
    /\ IsReconstruct
    /\ \E s1 \in SnapshotsOf(op.timeline_id), s2 \in SnapshotsOf(op.timeline_id),
          e \in EventsOf(op.timeline_id) :
          /\ s1.timestamp < s2.timestamp \/ s1.timestamp > op.timestamp
          /\ s2.timestamp <= op.timestamp
          /\ s1.state # s2.state
          /\ e.timestamp = s2.timestamp
          /\ DOMAIN e.state_delta.global_changes # {}
          /\ DOMAIN s2.state.global_properties # {}
          /\ DOMAIN e.state_delta.global_changes # DOMAIN s2.state.global_properties
          /\ result.global_properties =
                update(s2.state.global_properties, e.state_delta.global_changes)

----------------------------------------------------------------------------
(* Properties of fork_timeline *)

IsFork == op.name = "fork_timeline"

TimelineIdsIn(rows) == {rows[i].id : i \in 1..Len(rows)}

\* c has the timestamp and the content of e.
CopyOf(c, e) ==
    /\ c.timestamp = e.timestamp
    /\ c.event_type = e.event_type
    /\ c.importance_score = e.importance_score
    /\ c.detail_level = e.detail_level
    /\ c.state_delta = e.state_delta

\* The events of the source, as the call found them, not after the fork point.
ForkedFrom ==
    {e \in Range(pre.events) :
        e.timeline_id = op.source_timeline_id /\ e.timestamp <= op.from_timestamp}

\* C5: once fork_timeline(T, name, t) has returned the fork F, the events of
\* F are copies of exactly the events of T with timestamp <= t, one copy for
\* each, none of an event of T after t, and the parent of F is T.
C5_ForkCopiesUpToForkPoint ==
    (IsFork /\ result # NotFound) =>
        /\ result.parent_timeline_id = Some(op.source_timeline_id)
        /\ \A c \in EventsOf(result.id) : c.timestamp <= op.from_timestamp
        /\ \E f \in [ForkedFrom -> EventsOf(result.id)] :
              /\ \A e1 \in ForkedFrom, e2 \in ForkedFrom : f[e1] = f[e2] => e1 = e2
              /\ \A c \in EventsOf(result.id) : \E e \in ForkedFrom : f[e] = c
              /\ \A e \in ForkedFrom : CopyOf(f[e], e)

\* C5 witness: the source had an event exactly at the fork point and one
\* after it, and the fork holds one event.
C5_Witness ==
    /\ IsFork
    /\ result # NotFound
    /\ Cardinality(EventsOf(result.id)) = 1
    /\ \E e1 \in EventsOf(op.source_timeline_id), e2 \in EventsOf(op.source_timeline_id) :
          /\ e1.timestamp = op.from_timestamp
          /\ e2.timestamp > op.from_timestamp

\* C6: fork_timeline with a source id that no stored timeline has fails with
\* the not-found error and inserts no timeline and no event.
C6_ForkOfMissingSourceFails ==
    (IsFork /\ op.source_timeline_id \notin TimelineIdsIn(pre.timelines)) =>
        /\ result = NotFound
        /\ timelines = pre.timelines
        /\ events = pre.events

\* C6 witness: a fork of a missing source was asked for while another
\* timeline and an event of it were stored.
C6_Witness ==
    /\ IsFork
    /\ op.source_timeline_id \notin TimelineIdsIn(pre.timelines)
    /\ result = NotFound
    /\ timelines # <<>>
    /\ events # <<>>

----------------------------------------------------------------------------
(* Properties of compress_events *)

IsCompress == op.name = "compress_events"

\* The events compress_events is to decrement.
Qualifies(e) ==
    /\ e.timeline_id = op.timeline_id
    /\ e.timestamp < op.before
    /\ e.importance_score < op.min_importance
    /\ e.detail_level > 0

\* C10: compress_events(T, before, min_importance) takes one from the detail
\* level of every event of T with timestamp < before, importance_score <
\* min_importance and detail_level > 0, leaves every other event as it was
\* and returns the number of events it changed; an event at level 0 is
\* neither changed nor counted.
C10_CompressDecrementsQualifying ==
    IsCompress =>
        /\ Len(events) = Len(pre.events)
        /\ \A i \in 1..Len(events) :
              events[i] = IF Qualifies(pre.events[i])
                          THEN [pre.events[i] EXCEPT !.detail_level = @ - 1]
                          ELSE pre.events[i]
        /\ result = Cardinality({i \in 1..Len(pre.events) : Qualifies(pre.events[i])})

\* C10 witness: one call took an event from level 2 to 1 and counted only it,
\* while an old, unimportant event of the timeline stayed at level 0.
C10_Witness ==
    /\ IsCompress
    /\ result = 1
    /\ \E i \in 1..Len(events), j \in 1..Len(events) :
          /\ pre.events[i].detail_level = 2
          /\ events[i].detail_level = 1
          /\ events[j].timeline_id = op.timeline_id
          /\ events[j].timestamp < op.before
          /\ events[j].importance_score < op.min_importance
          /\ pre.events[j].detail_level = 0
          /\ events[j].detail_level = 0

----------------------------------------------------------------------------
(* Properties of the entity-event queries *)

\* The event is linked to the entity: under the role when one is given,
\* under any role otherwise.
Linked(e, entity_id, role) ==
    \E l \in links :
        /\ l.event_id = e.id
        /\ l.entity_id = entity_id
        /\ role # None => l.role = Val(role)

InWindow(e, start, end) ==
    /\ start # None => e.timestamp >= Val(start)
    /\ end # None => e.timestamp <= Val(end)

\* C7: get_events_with_entities(entity_ids, T, match_all) returns, sorted
\* ascending by timestamp, exactly the events of T linked to every entity of
\* entity_ids when match_all is true and exactly those linked to at least
\* one of them when it is false; with no entity the result is empty.
C7_WithEntitiesIntersectionOrUnion ==
    op.name = "get_events_with_entities" =>
        /\ Ascending(result)
        /\ NoDuplicates(result)
        /\ Range(result) =
              {e \in EventsOf(op.timeline_id) :
                 /\ InWindow(e, op.start, op.end)
                 /\ IF op.match_all
                    THEN /\ op.entity_ids # {}
                         /\ \A x \in op.entity_ids : Linked(e, x, None)
                    ELSE \E x \in op.entity_ids : Linked(e, x, None)}

\* C7 witness: of two entities asked for with match_all, one event of the
\* timeline is linked to both and is returned, another is linked to only one
\* of them and is not.
C7_Witness ==
    /\ op.name = "get_events_with_entities"
    /\ op.match_all
    /\ Cardinality(op.entity_ids) = 2
    /\ Len(result) = 1
    /\ \E e \in EventsOf(op.timeline_id), x \in op.entity_ids, y \in op.entity_ids :
          /\ e \notin Range(result)
          /\ Linked(e, x, None)
          /\ ~Linked(e, y, None)

----------------------------------------------------------------------------
(* Properties of trace_causality *)

IsTrace == op.name = "trace_causality"

\* b is the target of a causal relationship whose source is the event a.
Causes(a, b) ==
    \E r \in Range(relationships) :
        /\ r.relation_type = "causal"
        /\ r.source_type = "event"
        /\ r.source_id = a
        /\ r.target_id = b

Effects(a) == {r.target_id : r \in {q \in Range(relationships) : Causes(a, q.target_id)}}

StoredEventIds == {e.id : e \in Range(events)}

\* ids is a linear chain of stored events from the start event: each but the
\* last causes the next and nothing else, the last causes nothing.
LinearChain(ids) ==
    /\ Len(ids) >= 1
    /\ ids[1] = op.event_id
    /\ \A i \in 1..Len(ids) : ids[i] \in StoredEventIds
    /\ \A i \in 1..Len(ids), j \in 1..Len(ids) : i # j => ids[i] # ids[j]
    /\ \A i \in 1..(Len(ids) - 1) : Effects(ids[i]) = {ids[i + 1]}
    /\ Effects(ids[Len(ids)]) = {}

PathIds(path) == [i \in 1..Len(path) |-> path[i].id]

Chains == UNION {[1..n -> ChainIds] : n \in 1..MaxChainEvents}

\* C9: forward from the first event of a linear chain of causal relationships
\* no longer than max_depth, trace_causality returns one path, the events of
\* the chain in order (the start event alone when it causes nothing); no
\* path steps along a relationship that is not causal.
C9_TraceLinearChain ==
    IsTrace =>
        /\ op.forward =>
              \A ids \in Chains :
                 (LinearChain(ids) /\ Len(ids) - 1 <= op.max_depth) =>
                    /\ Len(result) = 1
                    /\ PathIds(result[1]) = ids
                    /\ \A i \in 1..Len(ids) : result[1][i] \in Range(events)
        /\ \A k \in 1..Len(result) : \A i \in 1..(Len(result[k]) - 1) :
              IF op.forward THEN Causes(result[k][i].id, result[k][i + 1].id)
              ELSE Causes(result[k][i + 1].id, result[k][i].id)

\* C9 witness: a chain of three events is traced from its first event, which
\* also has a relationship of another type, and comes back as the one path.
C9_Witness ==
    /\ IsTrace
    /\ op.forward
    /\ Len(result) = 1
    /\ Len(result[1]) = 3
    /\ LinearChain(PathIds(result[1]))
    /\ \E r \in Range(relationships) :
          r.source_id = op.event_id /\ r.relation_type # "causal"


----------------------------------------------------------------------------
(* Timeline trees: timelines created under stored parents *)

TreeIds == {TimelineBase + n : n \in 1..MaxTreeTimelines}

NextTree ==
    \/ /\ Idle
       /\ \/ /\ Len(timelines) < MaxTreeTimelines
             /\ \E parent \in Optional(TreeIds) : CreateTimeline(parent)
          \/ \E root \in TreeIds, d \in (-1)..MaxTreeDepth : GetTimelineTree(root, d)
    \/ Return

SpecTree == Init /\ [][NextTree]_vars

----------------------------------------------------------------------------
(* Properties of get_timeline_tree *)

IsTree == op.name = "get_timeline_tree"

\* The k-th ancestor of a timeline along parent_timeline_id, if there is one.
RECURSIVE Ancestor(_, _)
Ancestor(id, k) ==
    IF k = 0 THEN Some(id)
    ELSE LET t == get_timeline_by_id(id)
         IN IF t = {} \/ Val(t).parent_timeline_id = None THEN None
            ELSE Ancestor(Val(Val(t).parent_timeline_id), k - 1)

\* The stored timelines at depth <= d below root, the root being at depth 0.
WithinDepth(root, d) ==
    {t \in Range(timelines) : \E k \in 0..d : Ancestor(t.id, k) = Some(root)}

\* C11: get_timeline_tree(root, max_depth) returns, once each, exactly the
\* stored timelines reachable from the root through parent->child links at
\* depth <= max_depth, the root (depth 0) first; deeper timelines are left
\* out and no error is raised.
C11_TreeWithinMaxDepthRootFirst ==
    IsTree =>
        /\ Range(result) = WithinDepth(op.root_timeline_id, op.max_depth)
        /\ NoDuplicates(result)
        /\ result # <<>> => result[1].id = op.root_timeline_id

\* C11 witness: a chain of four timelines traversed from its root with
\* max_depth 2: three are returned and the great-grandchild is left out.
C11_Witness ==
    /\ IsTree
    /\ op.max_depth = 2
    /\ Len(result) = 3
    /\ \E t \in Range(timelines) : Ancestor(t.id, 3) = Some(op.root_timeline_id)


----------------------------------------------------------------------------
(* Relationships between events and entities, with validity windows *)

EndpointIds == {EventBase + n : n \in 1..MaxEndpoints}

NextRelations ==
    \/ /\ Idle
       /\ \/ /\ Len(relationships) < MaxEdges
             /\ \E a \in EndpointIds, b \in EndpointIds, sty \in SourceType,
                   tty \in SourceType, ty \in RelationType,
                   from \in Optional(Times), until \in Optional(Times) :
                  CreateRelationship(a, sty, b, tty, ty, from, until)
          \/ \E x \in EndpointIds, ty \in Optional(RelationType),
                at \in Optional(Times), src \in BOOLEAN, tgt \in BOOLEAN :
               GetRelationships(x, ty, at, src, tgt)
    \/ Return

SpecRelations == Init /\ [][NextRelations]_vars

----------------------------------------------------------------------------
(* Properties of get_relationships *)

IsRelationships == op.name = "get_relationships"

\* The direction and type filters of the call, as its parameters state them.
PassesOtherFilters(r) ==
    /\ \/ op.as_source /\ r.source_id = op.entity_id
       \/ op.as_target /\ r.target_id = op.entity_id
    /\ op.relation_type # None => r.relation_type = Val(op.relation_type)

\* C12: with at_time supplied, get_relationships returns a relationship if
\* and only if it passes the other filters and (valid_from is unset or
\* valid_from <= at_time) and (valid_until is unset or valid_until >= at_time).
C12_AtTimeInclusiveWindow ==
    (IsRelationships /\ op.at_time # None) =>
        Range(result) =
            {r \in Range(relationships) :
                /\ PassesOtherFilters(r)
                /\ r.valid_from = None \/ Val(r.valid_from) <= Val(op.at_time)
                /\ r.valid_until = None \/ Val(r.valid_until) >= Val(op.at_time)}

\* C13: with no time filter, get_relationships(id) returns every stored
\* relationship, of any endpoint type, whose source is id (as_source) or
\* whose target is id (as_target), nothing from a direction whose flag is
\* false, and only those of relation_type when it is supplied.
C13_BothDirectionsAnyEndpointType ==
    (IsRelationships /\ op.at_time = None) =>
        Range(result) = {r \in Range(relationships) : PassesOtherFilters(r)}


----------------------------------------------------------------------------
(* Construction invariants: events with an end, relationships with a      *)
(* validity window, a fork that copies the events                         *)

NextValidation ==
    \/ /\ Idle
       /\ \/ /\ Len(timelines) < 1
             /\ CreateTimeline(None)
          \/ /\ Len(events) < MaxEvents
             /\ \E t \in TimelineIds, ts \in Times, end \in Optional(1..(MaxTime + 1)) :
                  AddEvent(t, ts, "observation", "d", EmptyDelta, 5, end)
          \/ /\ Cardinality(Forks) < MaxForks
             /\ \E t \in TimelineIds, ts \in Times : ForkTimeline(t, ts)
          \/ /\ Len(relationships) < MaxEdges
             /\ \E a \in EndpointIds, from \in Optional(Times),
                   until \in Optional(1..(MaxTime + 1)) :
                  CreateRelationship(a, "event", a, "event", "causal", from, until)
    \/ Return

SpecValidation == Init /\ [][NextValidation]_vars

----------------------------------------------------------------------------
(* Properties of the construction invariants *)

\* An end_timestamp that is set and not strictly greater than the timestamp.
BadEnd(timestamp, end_timestamp) ==
    end_timestamp # None /\ Val(end_timestamp) <= timestamp

\* A valid_until that is not strictly greater than a set valid_from.
BadUntil(valid_from, valid_until) ==
    valid_from # None /\ valid_until # None /\ Val(valid_until) <= Val(valid_from)

\* C14: add_event with an end_timestamp that is set and not > timestamp, and
\* create_relationship with a valid_until not > a set valid_from, fail with a
\* validation error and leave storage unchanged; every stored event has
\* end_timestamp unset or > timestamp (and every stored relationship
\* valid_until unset or > a set valid_from).
C14_InvalidRecordsNeverStored ==
    /\ [](op.name = "add_event" /\ BadEnd(op.timestamp, op.end_timestamp)
            => result = ValidationError)
    /\ [](op.name = "create_relationship" /\ BadUntil(op.valid_from, op.valid_until)
            => result = ValidationError)
    /\ [][op'.name \in {"add_event", "create_relationship"}
             /\ result' = ValidationError => UNCHANGED storage]_vars
    /\ [](\A e \in Range(events) : ~BadEnd(e.timestamp, e.end_timestamp))
    /\ [](\A r \in Range(relationships) : ~BadUntil(r.valid_from, r.valid_until))

\* C14 witness: add_event with end_timestamp equal to timestamp has failed
\* while an event with an end and a relationship with a validity window are
\* stored.
C14_Witness ==
    /\ op.name = "add_event"
    /\ op.end_timestamp = Some(op.timestamp)
    /\ result = ValidationError
    /\ \E e \in Range(events) : e.end_timestamp # None
    /\ \E r \in Range(relationships) : r.valid_from # None /\ r.valid_until # None


----------------------------------------------------------------------------
(* State reconstruction with entity changes and an entity filter *)

GlobalDicts == {d \in Dicts : DOMAIN d \subseteq {"x"}}

EntityDicts == UNION {[D -> Dicts] : D \in SUBSET EntityIds}

NextEntityState ==
    \/ /\ Idle
       /\ \/ /\ Len(timelines) < 1
             /\ CreateTimeline(None)
          \/ /\ Len(events) < MaxEvents
             /\ \E t \in TimelineIds, ts \in Times, g \in GlobalDicts, ec \in EntityDicts :
                  AddEvent(t, ts, "observation", "d", StateDelta(g, ec), 5, None)
          \/ \E t \in TimelineIds, ts \in Times, xs \in Optional(SUBSET EntityIds) :
               ReconstructStateAt(t, ts, xs)
    \/ Return

SpecEntityState == Init /\ [][NextEntityState]_vars

----------------------------------------------------------------------------
(* Properties of the entity filter of reconstruct_state_at *)

\* The events among W that change entity x.
Touching(W, x) == {e \in W : x \in DOMAIN e.state_delta.entity_changes}

\* The events among W that set property k of entity x.
EntityWriters(W, x, k) ==
    {e \in Touching(W, x) : k \in DOMAIN e.state_delta.entity_changes[x]}

\* props is the property map of entity x merged key by key from the events
\* of W, a latest event that sets a key giving its value.
EntityLastWriteWins(props, W, x) ==
    /\ DOMAIN props = {k \in Keys : EntityWriters(W, x, k) # {}}
    /\ \A k \in DOMAIN props :
          \E e \in EntityWriters(W, x, k) :
             /\ \A f \in EntityWriters(W, x, k) : f.timestamp <= e.timestamp
             /\ props[k] = e.state_delta.entity_changes[x][k]

\* C15: reconstruct_state_at applies the entity_changes of the replayed
\* events only for the entities in entity_ids when the filter is supplied,
\* and for every entity when it is None, merging each entity's property map
\* key by key with later events overwriting earlier ones; global_changes are
\* applied whatever the filter is.
C15_EntityFilterOnlyOnEntityChanges ==
    (IsReconstruct /\ SnapshotsOf(op.timeline_id) = {}) =>
        LET W == {e \in EventsOf(op.timeline_id) : e.timestamp <= op.timestamp}
            selected == IF op.entity_ids = None THEN EntityIds ELSE Val(op.entity_ids)
        IN /\ LastWriteWins(result.global_properties, EmptyDict, W)
           /\ DOMAIN result.entity_states = {x \in selected : Touching(W, x) # {}}
           /\ \A x \in DOMAIN result.entity_states :
                 EntityLastWriteWins(result.entity_states[x], W, x)

\* C15 witness: a replayed event changes a global property and two entities,
\* the filter names one of them, and the state has the global property and
\* that entity only.
C15_Witness ==
    /\ IsReconstruct
    /\ op.entity_ids # None
    /\ \E e \in EventsOf(op.timeline_id) :
          /\ e.timestamp <= op.timestamp
          /\ DOMAIN e.state_delta.global_changes # {}
          /\ DOMAIN e.state_delta.entity_changes = EntityIds
          /\ \E x \in EntityIds : Val(op.entity_ids) = {x}
    /\ DOMAIN result.global_properties # {}
    /\ DOMAIN result.entity_states = Val(op.entity_ids)


----------------------------------------------------------------------------
(* Copies made by a fork: events with ends, descriptions, levels, metadata *)

Descriptions == {"d", "e"}

NextCopy ==
    \/ /\ Idle
       /\ \/ /\ Len(timelines) < 1
             /\ CreateTimeline(None)
          \/ /\ Len(events) < MaxEvents
             /\ \E t \in TimelineIds, ts \in Times, desc \in Descriptions,
                   end \in {None, Some(MaxTime + 1)} :
                  AddEvent(t, ts, "observation", desc, EmptyDelta, 5, end)
          \/ \E e \in EventIds, d \in DetailLevels : UpdateEvent(e, d)
          \/ \E e \in EventIds, m \in Dicts : UpdateEventMetadata(e, m)
          \/ /\ Cardinality(Forks) < MaxForks
             /\ \E t \in TimelineIds, ts \in Times : ForkTimeline(t, ts)
    \/ Return

SpecCopy == Init /\ [][NextCopy]_vars

----------------------------------------------------------------------------
(* Properties of the copies made by fork_timeline *)

\* c has the timestamp and the content of e.
SameContent(c, e) ==
    /\ c.timestamp = e.timestamp
    /\ c.end_timestamp = e.end_timestamp
    /\ c.event_type = e.event_type
    /\ c.description = e.description
    /\ c.importance_score = e.importance_score
    /\ c.detail_level = e.detail_level
    /\ c.state_delta = e.state_delta
    /\ c.metadata = e.metadata

\* C16: every event copied by fork_timeline is a fresh record: its id is the
\* id of no event of the source timeline, its timeline_id is the fork's id,
\* and its timestamp, end_timestamp, event_type, description,
\* importance_score, detail_level, state_delta and metadata are those of the
\* source event it was copied from.
C16_CopiesAreFreshWithSameContent ==
    (IsFork /\ result # NotFound) =>
        /\ \A c \in EventsOf(result.id) :
              /\ c.timeline_id = result.id
              /\ \A e \in Range(pre.events) : c.id # e.id
        /\ \E f \in [ForkedFrom -> EventsOf(result.id)] :
              /\ \A e1 \in ForkedFrom, e2 \in ForkedFrom : f[e1] = f[e2] => e1 = e2
              /\ \A c \in EventsOf(result.id) : \E e \in ForkedFrom : f[e] = c
              /\ \A e \in ForkedFrom : SameContent(f[e], e)


----------------------------------------------------------------------------
(* Properties of a fork as a point-in-time copy *)

\* S is the source of the stored fork F.
IsForkOf(F, S) ==
    \E t \in Range(timelines) : t.id = F /\ t.parent_timeline_id = Some(S)

\* C17: a fork is a point-in-time copy and not a live link: once F has been
\* forked from S, add_event or compress_events on S leaves the events of F
\* unchanged and add_event or compress_events on F leaves the events of S
\* unchanged; fork_timeline itself leaves the events of its source unchanged.
C17_ForkIsNotALiveLink ==
    [][/\ op'.name \in {"add_event", "compress_events"} =>
            \A F \in ForkIds, S \in ForkIds :
                IsForkOf(F, S) =>
                    /\ op'.timeline_id = S => EventsOf(F)' = EventsOf(F)
                    /\ op'.timeline_id = F => EventsOf(S)' = EventsOf(S)
       /\ op'.name = "fork_timeline" =>
            \A S \in ForkIds :
                op'.source_timeline_id = S => EventsOf(S)' = EventsOf(S)]_vars

\* C17 witness: compress_events on the source has lowered the level of an
\* event while its copy in the fork, made before, keeps the level it had.
C17_Witness ==
    /\ IsCompress
    /\ result > 0
    /\ \E F \in ForkIds :
          /\ IsForkOf(F, op.timeline_id)
          /\ \E e \in EventsOf(op.timeline_id), c \in EventsOf(F) :
                /\ c.timestamp = e.timestamp
                /\ c.importance_score = e.importance_score
                /\ Qualifies(CHOOSE x \in Range(pre.events) : x.id = e.id)
                /\ c.detail_level = e.detail_level + 1


----------------------------------------------------------------------------
(* Events before and after a time: two timelines, three timestamps *)

NextNear ==
    \/ /\ Idle
       /\ \/ /\ Len(timelines) < MaxTimelines
             /\ CreateTimeline(None)
          \/ /\ Len(events) < MaxNearEvents
             /\ \E t \in TimelineIds, ts \in 1..(MaxTime + 1) :
                  AddEvent(t, ts, "observation", "d", EmptyDelta, 5, None)
          \/ \E t \in TimelineIds, ts \in 0..(MaxTime + 2), limit \in 0..MaxLimit :
               GetEventsBefore(t, ts, limit)
          \/ \E t \in TimelineIds, ts \in 0..(MaxTime + 2), limit \in 0..MaxLimit :
               GetEventsAfter(t, ts, limit)
    \/ Return

SpecNear == Init /\ [][NextNear]_vars

----------------------------------------------------------------------------
(* Properties of get_events_before and get_events_after *)

Descending(xs) ==
    \A i \in 1..Len(xs), j \in 1..Len(xs) : i < j => xs[i].timestamp >= xs[j].timestamp

\* C18: get_events_before(T, t, limit) returns only events of T with
\* timestamp < t, descending by timestamp, the limit nearest to t;
\* get_events_after(T, t, limit) returns only events of T with timestamp > t,
\* ascending, the limit earliest; an event at exactly t is in neither.
C18_BeforeAfterStrictSortedLimited ==
    /\ op.name = "get_events_before" =>
          LET Q == {e \in EventsOf(op.timeline_id) : e.timestamp < op.timestamp}
          IN /\ Range(result) \subseteq Q
             /\ NoDuplicates(result)
             /\ Descending(result)
             /\ Len(result) = Min(op.limit, Cardinality(Q))
             /\ \A e \in Q \ Range(result), r \in Range(result) :
                   e.timestamp <= r.timestamp
    /\ op.name = "get_events_after" =>
          LET Q == {e \in EventsOf(op.timeline_id) : e.timestamp > op.timestamp}
          IN /\ Range(result) \subseteq Q
             /\ NoDuplicates(result)
             /\ Ascending(result)
             /\ Len(result) = Min(op.limit, Cardinality(Q))
             /\ \A e \in Q \ Range(result), r \in Range(result) :
                   e.timestamp >= r.timestamp

\* C18 witness: the timeline holds an event at t and two earlier events at
\* different times; get_events_before with limit 1 returns the nearer one.
C18_Witness ==
    /\ op.name = "get_events_before"
    /\ op.limit = 1
    /\ \E e \in EventsOf(op.timeline_id) : e.timestamp = op.timestamp
    /\ \E e1 \in EventsOf(op.timeline_id), e2 \in EventsOf(op.timeline_id) :
          /\ e1.timestamp < e2.timestamp
          /\ e2.timestamp < op.timestamp
          /\ result = <<e2>>


----------------------------------------------------------------------------
(* Entities of an event: links, and entities deleted from storage *)

\* The id the next entity gets is the id of no stored entity and of no link.
FreshEntityId ==
    /\ get_entity_by_id(NewEntityId) = {}
    /\ \A l \in links : l.entity_id # NewEntityId

NextEventEntities ==
    \/ /\ Idle
       /\ \/ /\ Len(timelines) < 1
             /\ CreateTimeline(None)
          \/ /\ Len(events) < MaxEvents
             /\ \E t \in TimelineIds :
                  AddEvent(t, 1, "observation", "d", EmptyDelta, 5, None)
          \/ /\ Len(entities) < MaxEntities
             /\ FreshEntityId
             /\ CreateEntity
          \/ \E e \in EventIds, x \in EntityIds, r \in Roles : LinkEventEntity(e, x, r)
          \/ \E x \in EntityIds, cascade \in BOOLEAN : DeleteEntity(x, cascade)
          \/ \E e \in EventIds : GetEventEntities(e)
    \/ Return

SpecEventEntities == Init /\ [][NextEventEntities]_vars

----------------------------------------------------------------------------
(* Properties of get_event_entities *)

IsEventEntities == op.name = "get_event_entities"

\* The links of event E whose entity is stored.
LiveLinks(E) ==
    {l \in links : l.event_id = E /\ \E x \in Range(entities) : x.id = l.entity_id}

\* C19: get_event_entities(E) returns one (entity, role) entry for every
\* link of E whose entity is stored, so an entity linked under two roles
\* appears twice, and leaves out, without an error, every link whose entity
\* id does not resolve to a stored entity.
C19_EventEntitiesSkipMissing ==
    IsEventEntities =>
        /\ \A l \in LiveLinks(op.event_id) :
              \E entry \in result :
                 /\ entry.entity \in Range(entities)
                 /\ entry.entity.id = l.entity_id
                 /\ entry.role = l.role
        /\ \A entry \in result :
              \E l \in LiveLinks(op.event_id) :
                 entry.entity.id = l.entity_id /\ entry.role = l.role
        /\ Cardinality(result) = Cardinality(LiveLinks(op.event_id))

\* C19 witness: the event has links to a stored entity under two roles and a
\* link to an entity that is not stored any more; the result has the two
\* entries of the stored entity.
C19_Witness ==
    /\ IsEventEntities
    /\ Cardinality(result) = 2
    /\ \E x \in Range(entities) : \A entry \in result : entry.entity = x
    /\ \E l \in links : l.event_id = op.event_id /\ l \notin LiveLinks(op.event_id)


----------------------------------------------------------------------------
(* Properties of trace_causality from an event that is not stored *)

\* C20: trace_causality started from an event id that does not resolve to a
\* stored event returns an empty list of paths and raises no error, forward
\* and backward.
C20_TraceFromMissingEventIsEmpty ==
    (IsTrace /\ get_event_by_id(op.event_id) = {}) => result = <<>>

\* C20 witness: the start is not stored although events are, a causal
\* relationship leaves it towards a stored event, another one arrives at it,
\* and the backward trace is empty.
C20_Witness ==
    /\ IsTrace
    /\ ~op.forward
    /\ op.max_depth > 0
    /\ get_event_by_id(op.event_id) = {}
    /\ \E r \in Range(relationships) :
          /\ r.relation_type = "causal"
          /\ r.source_id = op.event_id
          /\ get_event_by_id(r.target_id) # {}
    /\ \E r \in Range(relationships) :
          /\ r.relation_type = "causal"
          /\ r.target_id = op.event_id
          /\ get_event_by_id(r.source_id) # {}
    /\ result = <<>>


----------------------------------------------------------------------------
(* Properties of trace_causality on graphs with missing events *)

\* b follows a in the direction of the call along a causal relationship
\* between events.
Follows(a, b) == IF op.forward THEN Causes(a, b) ELSE Causes(b, a)

\* C21: when the start event is stored and a causal relationship from it
\* leads to an event id that is not stored, trace_causality raises no error
\* and still returns at least one path, which contains the start event.
C21_MissingNeighbourKeepsStartPath ==
    (/\ IsTrace
     /\ op.forward
     /\ op.event_id \in StoredEventIds
     /\ \E b \in ChainIds : Causes(op.event_id, b) /\ b \notin StoredEventIds) =>
        /\ result # <<>>
        /\ \E k \in 1..Len(result) :
              \E i \in 1..Len(result[k]) : result[k][i].id = op.event_id


----------------------------------------------------------------------------
(* Timeline summaries: two timelines, three timestamps *)

NextSummary ==
    \/ /\ Idle
       /\ \/ /\ Len(timelines) < MaxTimelines
             /\ CreateTimeline(None)
          \/ /\ Len(events) < MaxNearEvents
             /\ \E t \in TimelineIds, ts \in 1..(MaxTime + 1) :
                  AddEvent(t, ts, "observation", "d", EmptyDelta, 5, None)
          \/ \E t \in TimelineIds, at \in 0..(MaxTime + 1) : GetTimelineSummary(t, at)
    \/ Return

SpecSummary == Init /\ [][NextSummary]_vars

----------------------------------------------------------------------------
(* Properties of get_timeline_summary *)

\* C22: get_timeline_summary(T, at_time) returns event_count equal to the
\* number of events of T with timestamp <= at_time, first_event and
\* last_event equal to the least and the greatest timestamp among them, and
\* event_count 0 with both unset when there is no such event.
C22_SummaryCountsUpToAtTime ==
    op.name = "get_timeline_summary" =>
        LET Q == {e \in EventsOf(op.timeline_id) : e.timestamp <= op.at_time}
        IN /\ result.event_count = Cardinality(Q)
           /\ Q = {} => result.first_event = None /\ result.last_event = None
           /\ Q # {} =>
                 /\ \E e \in Q : result.first_event = Some(e.timestamp)
                 /\ \E e \in Q : result.last_event = Some(e.timestamp)
                 /\ \A e \in Q : /\ Val(result.first_event) <= e.timestamp
                                 /\ e.timestamp <= Val(result.last_event)

\* C22 witness: the timeline holds an event before at_time, one at at_time
\* and one after it; the summary counts two.
C22_Witness ==
    /\ op.name = "get_timeline_summary"
    /\ result.event_count = 2
    /\ result.first_event # result.last_event
    /\ result.last_event = Some(op.at_time)
    /\ \E e \in EventsOf(op.timeline_id) : e.timestamp > op.at_time


----------------------------------------------------------------------------
(* Causal graphs: four stored events joined by causal relationships in     *)
(* any shape, diamonds, cycles and self-loops included                     *)

GraphIds == {EventBase + n : n \in 1..MaxGraphEvents}

NextGraph ==
    \/ /\ Idle
       /\ \/ /\ Len(timelines) < 1
             /\ CreateTimeline(None)
          \/ /\ Len(events) < MaxGraphEvents
             /\ \E t \in TimelineIds : AddEvent(t, 1, "observation", "d", EmptyDelta, 5, None)
          \/ /\ Len(events) = MaxGraphEvents
             /\ Len(relationships) < MaxGraphRelationships
             /\ \E a \in GraphIds, b \in GraphIds :
                  CreateRelationship(a, "event", b, "event", "causal", None, None)
          \/ \E e \in GraphIds, d \in {0, 1, MaxGraphDepth}, forward \in BOOLEAN :
               TraceCausality(e, d, forward)
    \/ Return

SpecGraph == Init /\ [][NextGraph]_vars

----------------------------------------------------------------------------
(* Properties of the traversal of trace_causality *)

\* The run of bfs the call made: storage is as the call found it.
Traversal == bfs(op.event_id, 0, <<>>, NoneVisited, op.max_depth, op.forward)

\* The last event of a path.
Last(path) == path[Len(path)]

\* C23: trace_causality keeps one visited set for the whole traversal: every
\* event is expanded at most once and a branch that reaches a visited event
\* stops without a path, so no two paths end at the same event (one path to
\* D in a diamond) and a traversal with no end of chain, such as the cycle
\* A->B->A started at A, returns no path.
C23_OneVisitedSetForTheTraversal ==
    IsTrace =>
        LET expanded == Traversal.expanded
        IN /\ \A i \in 1..Len(expanded), j \in 1..Len(expanded) :
                 i # j => expanded[i].id # expanded[j].id
           /\ \A k \in 1..Len(result), m \in 1..Len(result) :
                 k # m => Last(result[k]).id # Last(result[m]).id
           /\ (\A i \in 1..Len(expanded) :
                  \E b \in GraphIds : Follows(expanded[i].id, b)) => result = <<>>

\* The relationships are those of the diamond A->B, A->C, B->D, C->D.
Diamond(A, B, C, D) ==
    /\ Cardinality({A, B, C, D}) = 4
    /\ {<<r.source_id, r.target_id>> : r \in Range(relationships)}
         = {<<A, B>>, <<A, C>>, <<B, D>>, <<C, D>>}

\* C23 witness: a diamond traced forward from its top within max_depth: one
\* path, which ends at the bottom event.
C23_Witness ==
    /\ IsTrace
    /\ op.forward
    /\ op.max_depth >= 2
    /\ \E B \in GraphIds, C \in GraphIds, D \in GraphIds :
          /\ Diamond(op.event_id, B, C, D)
          /\ Len(result) = 1
          /\ Last(result[1]).id = D


\* C24: trace_causality never expands an event at a depth greater than
\* max_depth, the start being at depth 0, and emits no path for a branch cut
\* at that depth: every path ends at an event with no causal relationship
\* in the direction and holds at most max_depth + 1 events.
C24_DepthNeverBeyondMaxDepth ==
    IsTrace =>
        LET expanded == Traversal.expanded
        IN /\ \A i \in 1..Len(expanded) : expanded[i].depth <= op.max_depth
           /\ \A k \in 1..Len(result) :
                 /\ Len(result[k]) <= op.max_depth + 1
                 /\ \A b \in GraphIds : ~Follows(Last(result[k]).id, b)

\* C24 witness: with max_depth 1 the start and one event after it are
\* expanded, the next event of the chain is cut off by the depth alone, and
\* no path is returned.
C24_Witness ==
    /\ IsTrace
    /\ op.max_depth = 1
    /\ result = <<>>
    /\ LET expanded == Traversal.expanded
       IN /\ Len(expanded) = 2
          /\ \E b \in GraphIds :
                /\ Follows(expanded[2].id, b)
                /\ b \notin {expanded[1].id, expanded[2].id}


----------------------------------------------------------------------------
(* Termination of trace_causality: three events, causal relationships in   *)
(* any shape; the coroutine, once awaited, is run to its end               *)

NextTraceSteps ==
    \/ /\ Idle
       /\ \/ /\ Len(timelines) < 1
             /\ CreateTimeline(None)
          \/ /\ Len(events) < MaxChainEvents
             /\ \E t \in TimelineIds : AddEvent(t, 1, "observation", "d", EmptyDelta, 5, None)
          \/ /\ Len(relationships) < MaxRelationships
             /\ \E a \in ChainIds, b \in ChainIds :
                  CreateRelationship(a, "event", b, "event", "causal", None, None)
          \/ \E e \in ChainIds, d \in 0..MaxDepth, forward \in BOOLEAN :
               StartTrace(e, d, forward)
    \/ BfsStep
    \/ FinishTrace
    \/ /\ op.name # "bfs"
       /\ Return

SpecTraceSteps ==
    Init /\ [][NextTraceSteps]_vars /\ WF_vars(BfsStep) /\ WF_vars(FinishTrace)

\* C25: trace_causality terminates on every finite set of events and causal
\* relationships, cycles and self-loops included, forward and backward:
\* every call that has started returns, and what it returns is the list of
\* paths of the traversal.
C25_TraceTerminates ==
    /\ (op.name = "bfs") ~> (op.name = "trace_causality")
    /\ [](IsTrace => result = trace_causality(op.event_id, op.max_depth, op.forward))

\* C25 witness: a call has returned from a start event that has a self-loop
\* and lies on a cycle of two events.
C25_Witness ==
    /\ IsTrace
    /\ op.max_depth = MaxDepth
    /\ Causes(op.event_id, op.event_id)
    /\ \E b \in StoredEventIds :
          b # op.event_id /\ Causes(op.event_id, b) /\ Causes(b, op.event_id)

----------------------------------------------------------------------------
(* Termination of get_timeline_tree: parent links rewritten through the    *)
(* storage port, cycles and self-parents included                          *)

CycleIds == {TimelineBase + n : n \in 1..MaxCycleTimelines}

NextTreeSteps ==
    \/ /\ Idle
       /\ \/ /\ Len(timelines) < MaxCycleTimelines
             /\ \E parent \in Optional(CycleIds) : CreateTimeline(parent)
          \/ \E t \in CycleIds, parent \in Optional(CycleIds) :
               UpdateTimeline(t, parent)
          \/ \E root \in CycleIds, d \in (-1)..MaxTreeDepth : StartTree(root, d)
    \/ TraverseStep
    \/ FinishTree
    \/ /\ op.name # "traverse"
       /\ Return

SpecTreeSteps ==
    Init /\ [][NextTreeSteps]_vars /\ WF_vars(TraverseStep) /\ WF_vars(FinishTree)

\* Some timeline is its own ancestor along parent_timeline_id.
ParentCycle == \E t \in Range(timelines) : \E k \in 1..Len(timelines) : Ancestor(t.id, k) = Some(t.id)

\* C26: get_timeline_tree terminates on every finite set of timelines, also
\* when the parent links form a cycle: every call that has started returns,
\* no branch of nested invocations of traverse appends more than
\* max_depth + 1 timelines, and what is returned is the list the recursive
\* definition gives.
C26_TreeTerminatesWithinDepth ==
    /\ (op.name = "traverse") ~> IsTree
    /\ [](op.name = "traverse" =>
            /\ op.longest <= op.max_depth + 1
            /\ \A i \in 1..Len(op.stack) : Len(op.stack[i].branch) <= op.max_depth + 1)
    /\ [](IsTree => /\ result = get_timeline_tree(op.root_timeline_id, op.max_depth)
                    /\ op.longest <= op.max_depth + 1)

\* C26 witness: a call has returned on timelines whose parent links form a
\* cycle through the root; a branch of max_depth + 1 timelines was visited
\* and the root was appended more than once.
C26_Witness ==
    /\ IsTree
    /\ ParentCycle
    /\ op.max_depth = MaxTreeDepth
    /\ op.longest = MaxTreeDepth + 1
    /\ Len(SelectSeq(result, LAMBDA t : t.id = op.root_timeline_id)) > 1


----------------------------------------------------------------------------
(* Checkpoints: events and checkpoints of the service in any order *)

NextCheckpoint ==
    \/ /\ Idle
       /\ \/ /\ Len(timelines) < MaxTimelines
             /\ CreateTimeline(None)
          \/ /\ Len(events) < MaxEvents
             /\ \E t \in TimelineIds, ts \in Times, g \in Dicts :
                  AddEvent(t, ts, "observation", "d", StateDelta(g, EmptyDict), 5, None)
          \/ /\ Len(snapshots) < MaxSnapshots
             /\ \E t \in TimelineIds, ts \in Times : SaveCheckpoint(t, ts)
          \/ \E t \in TimelineIds, ts \in Times :
               ReconstructStateAt(t, ts, None)
    \/ Return

SpecCheckpoint == Init /\ [][NextCheckpoint]_vars

\* C27: snapshots are a transparent cache: after any sequence of add_event
\* and save_checkpoint on a timeline T, reconstruct_state_at(T, t) with
\* entity_ids=None returns the state that replaying every event of T with
\* timestamp <= t in ascending timestamp order from the empty state gives.
C27_SnapshotsAreTransparent ==
    IsReconstruct =>
        /\ LastWriteWins(result.global_properties, EmptyDict,
                         {e \in EventsOf(op.timeline_id) : e.timestamp <= op.timestamp})
        /\ result.entity_states = EmptyDict


----------------------------------------------------------------------------
(* Roles in any letter case *)

\* C28: role matching is case-insensitive end to end: for every role string
\* R in any letter case, once link_event_entity(E, X, R) has returned for an
\* event E of timeline T, get_entity_events(X, T, role=R) contains E.
C28_RoleMatchesInAnyCase ==
    op.name = "link_event_entity" =>
        \A e \in Range(events) :
            e.id = op.event_id =>
                e \in Range(get_entity_events(op.entity_id, e.timeline_id, None, None,
                                              Some(op.role)))


----------------------------------------------------------------------------
(* Concurrent compression: two callers on events of every detail level *)

NextConcurrent ==
    \/ /\ Idle
       /\ \/ /\ Len(timelines) < 1
             /\ CreateTimeline(None)
          \/ /\ Len(events) < MaxEvents
             /\ \E t \in TimelineIds, ts \in Times :
                  AddEvent(t, ts, "observation", "d", EmptyDelta, 5, None)
          \/ \E e \in EventIds, l \in DetailLevels : UpdateEvent(e, l)
    \/ \E c \in Callers, t \in TimelineIds, before \in Times, imp \in {5, 6} :
         StartCompress(c, t, before + 1, imp)
    \/ \E c \in Callers : CompressStep(c)
    \/ \E c \in Callers : FinishCompress(c)
    \/ /\ op = NoCallers \/ op.name # "callers"
       /\ Return

SpecConcurrent == Init /\ [][NextConcurrent]_vars

\* C29: under any sequence and any interleaving of concurrent
\* compress_events calls on the same timeline, each storage call being one
\* atomic step, the detail_level of every event stays within {0, 1, 2} and
\* no step of a caller increases it.
C29_ConcurrentCompressNeverIncreases ==
    /\ [](\A e \in Range(events) : e.detail_level \in DetailLevels)
    /\ [][op'.name = "callers" =>
            /\ Len(events') = Len(events)
            /\ \A i \in 1..Len(events) :
                  events'[i].detail_level <= events[i].detail_level]_vars


----------------------------------------------------------------------------
(* Properties of the paths of trace_causality *)

\* C30: every path returned by trace_causality(start, max_depth, forward)
\* begins with the start event, holds stored events and none of them twice,
\* has each consecutive pair joined by a stored causal relationship in the
\* direction of the traversal (source to target when forward, target to
\* source when backward), and ends at an event with no causal relationship
\* in that direction.
C30_PathsAreCausalChains ==
    IsTrace =>
        \A k \in 1..Len(result) :
            LET path == result[k]
            IN /\ path # <<>>
               /\ path[1].id = op.event_id
               /\ \A i \in 1..Len(path) : path[i] \in Range(events)
               /\ \A i \in 1..Len(path), j \in 1..Len(path) :
                     i # j => path[i].id # path[j].id
               /\ \A i \in 1..(Len(path) - 1) : Follows(path[i].id, path[i + 1].id)
               /\ \A b \in ChainIds : ~Follows(Last(path).id, b)

\* C30 witness: a backward trace returns one path of three events, from the
\* start against two causal relationships to an event that is the target
\* of a relationship that is not causal.
C30_Witness ==
    /\ IsTrace
    /\ ~op.forward
    /\ Len(result) = 1
    /\ Len(result[1]) = 3
    /\ \E r \in Range(relationships) :
          r.relation_type # "causal" /\ r.target_id = Last(result[1]).id


====
